---------------------------- MODULE Spec2Model ----------------------------
(***************************************************************************)
(* A model of the InternalBlue command layer (internalblue/cmds.py) and of *)
(* the hook installation script (examples/bla.py).                         *)
(*                                                                         *)
(* The command classes of cmds.py are modelled from their source.  The     *)
(* objects they call into (internalblue.core: writeMem, patchRom,          *)
(* disableRomPatch, getPatchramState, and the firmware description         *)
(* internalblue.fw) are not part of the two source files; they are         *)
(* modelled from the written specification and marked as such.             *)
(*                                                                         *)
(* Addresses are scaled down: the address space is 0 .. 13, one unit is    *)
(* one byte.  A byte is a small natural number.                            *)
(***************************************************************************)
EXTENDS Integers, Sequences, FiniteSets, TLC

VARIABLES
    SECTIONS,     \* fw.SECTIONS: the section list of the firmware map
    PATCHRAM_NUMBER_OF_SLOTS,
                  \* fw.PATCHRAM_NUMBER_OF_SLOTS: the capacity N of the patch
                  \* table of the chip (128 on the example chip), scaled
    secIn,        \* arguments of the isAddressInSections call under test
    secOut,       \* its result: "True" or "False" ("none" before the call)
    mem,          \* firmware memory: address -> byte
    writeLast,    \* outcome of the last write command
    patchram,     \* the hardware patch table: slot -> [address, value, active]
    patchLast,    \* outcome of the last patch command
    hook,         \* the hook installation script: position and what it did
    monitor,      \* kind -> the monitor controller of the kind, its viewer
                  \* process, its liveness timer and its callback registration
    monLast,      \* what the last step of the monitor part did
    memLast,      \* the last call of Cmd.writeMem or Cmd.readMem and its result
    connLast,     \* what the last step of the connection commands did
    channel,      \* the command channel: the request outstanding, the callers,
                  \* the event-delivery path and the pipe of the viewer
    image,        \* Cmd.memory_image, its template file and the last call
    teleLast,     \* what the last telescope command did
    threads,      \* the monitor controller with its threads, statement by statement
    execLast      \* what the last exec command did

vars == <<SECTIONS, PATCHRAM_NUMBER_OF_SLOTS, secIn, secOut, mem, writeLast,
          patchram, patchLast, hook, monitor, monLast, memLast, connLast,
          channel, image, teleLast, threads, execLast>>

fwVars      == <<SECTIONS, PATCHRAM_NUMBER_OF_SLOTS>>

sectionVars == <<secIn, secOut>>
writeVars   == <<mem, writeLast>>
patchVars   == <<patchram, patchLast>>
hookVars    == <<hook>>
monVars     == <<monitor, monLast>>
memVars     == <<memLast>>
connVars    == <<connLast>>
chanVars    == <<channel>>
imageVars   == <<image>>
teleVars    == <<teleLast>>
threadVars  == <<threads>>
execVars    == <<execLast>>
lateVars    == <<channel, image, teleLast, threads, execLast>>

NoValue == "none"

\* Python's None, for an argument that is not given and a slot that is not found
None == -99

\* The values of the variables of a part of the program that has not run.
IdleSecIn == [address |-> 0, length |-> 0, sectiontype |-> ""]

IdleWriteLast ==
    [cmd |-> NoValue, address |-> 0, length |-> 0, checked |-> FALSE,
     prompted |-> FALSE, answer |-> FALSE, sent |-> 0, result |-> TRUE]

IdlePatchLast ==
    [op |-> NoValue, address |-> None, slot |-> None, data |-> <<>>, value |-> <<>>,
     warned |-> {}, prompted |-> FALSE, answer |-> FALSE, reached |-> FALSE,
     index |-> None, result |-> TRUE, error |-> NoValue]

IdleHook == [pc |-> "idle", calls |-> <<>>]

\* the capture kinds
Kinds == {"hci", "lmp"}

\* MonitorController.hciInstance / lmpInstance before the first request (None),
\* with no viewer process, no timer and no callback.  Fields of the controller
\* object: running, wireshark_process, poll_timer, pcap_data_link_type; made is
\* the number of controller objects constructed for the kind.  Outside of it:
\* status is the exit status of the viewer process launched last (None while
\* it runs), stdin the items written to its input
\* (the global header with its link type, "record" for a record),
\* timer_pending whether a timer is waiting to fire, registered how often
\* the callback is registered with the event path.
NoController ==
    [created |-> FALSE, made |-> 0, running |-> FALSE, wireshark_process |-> None,
     poll_timer |-> None, pcap_data_link_type |-> 0,
     status |-> None, stdin |-> <<>>, timer_pending |-> FALSE, registered |-> 0]

NoMonitors == [k \in Kinds |-> NoController]

\* a record header of the capture stream, with the length of the payload
\* the record frames; the one of a step that builds no record
NoRecord == [incl_len |-> 0, orig_len |-> 0, payload_len |-> 0]

IdleMonLast ==
    [op |-> NoValue, kind |-> NoValue, result |-> NoValue, logged |-> {},
     raised |-> NoValue, record |-> NoRecord]

\* no call of Cmd.writeMem or Cmd.readMem yet: ok is whether the call
\* succeeded, data the bytes written, bytes the bytes read
IdleMemLast ==
    [op |-> NoValue, address |-> 0, length |-> 0, data |-> <<>>, ok |-> FALSE,
     bytes |-> <<>>]

\* no connection command yet: passed are the indexes handed to
\* readConnectionInformation, reads the indexes of the records read from
\* memory, found the connections the command took as present, sent the
\* connection number handed to sendLmpPacket
IdleConnLast ==
    [op |-> NoValue, conn_number |-> None, nocheck |-> FALSE,
     passed |-> <<>>, reads |-> <<>>, found |-> <<>>,
     result |-> NoValue, raised |-> NoValue, logged |-> {}, sent |-> None]

\* placeholders of the parts a specification does not run
\* The command channel with nothing in flight, the threads that send on it
\* and the event path that calls the capture callback: outstanding is the
\* caller whose request is in flight, waiting the callers blocked in send,
\* pipe the records in the viewer's input pipe that it has not read yet.
Callers == 1 .. 2

IdleChannel ==
    [outstanding |-> None, waiting |-> {},
     work |-> [c \in Callers |-> "idle"],
     response |-> [c \in Callers |-> NoValue],
     answered |-> [c \in Callers |-> None],
     returned |-> [c \in Callers |-> NoValue],
     registered |-> FALSE, pipe |-> 0, cb |-> "idle"]
\* Cmd.memory_image is None (line 77): cached is whether an image is held,
\* memory_image its bytes, template whether the template file exists and
\* template_data its bytes; op, refresh, was_cached and reads tell the last
\* call: the sections it read from the controller, in order
NoImage ==
    [cached |-> FALSE, memory_image |-> <<>>, template |-> FALSE,
     template_data |-> <<>>, op |-> NoValue, refresh |-> FALSE,
     was_cached |-> FALSE, reads |-> <<>>]
\* no telescope command yet: chains holds, for every displayed word, the
\* values of its pointer chain and the addresses read while following it
IdleTeleLast ==
    [op |-> NoValue, address |-> 0, length |-> 0, prompted |-> FALSE,
     result |-> NoValue, chains |-> <<>>]
\* The HCI monitor controller after __init__ (lines 259-265) with the three
\* threads that run its methods: pc is the statement each thread is at (the
\* command line, the timer thread, the event path that calls the callback),
\* raised the exception that last left a thread.
IdleThreads ==
    [running |-> FALSE, wireshark_process |-> None, status |-> None,
     registered |-> FALSE, poll_timer |-> None, timer_pending |-> FALSE,
     pc |-> [t \in {"cli", "timer", "cb"} |-> "idle"], raised |-> NoValue]
\* no exec command yet: stage is how far the command came, calls the calls
\* of writeMem and launchRam it made, with their address and result
IdleExecLast ==
    [op |-> NoValue, stage |-> NoValue, address |-> 0, data |-> <<>>,
     calls |-> <<>>, result |-> NoValue, raised |-> NoValue]

\* the slot indexes of the patch table, a free slot and the empty table
Slots == 0 .. PATCHRAM_NUMBER_OF_SLOTS - 1

FreeSlot == [address |-> 0, value |-> <<0, 0, 0, 0>>, active |-> FALSE]

EmptyPatchram == [i \in Slots |-> FreeSlot]

(***************************************************************************)
(* Bounds of the model.                                                    *)
(***************************************************************************)
\* sections of the generated firmware maps lie in 0 .. MaxSectionAddr
MaxSectionAddr == 4
\* longest range length passed to isAddressInSections in SpecSections
MaxRangeLen == 2
\* the capacity of the table the patch commands run on
PatchTableSlots == 2
\* the capacity of the table the hook installation script runs on
HookTableSlots == 3

(***************************************************************************)
(* FirmwareMap: sections.                                                  *)
(***************************************************************************)
Section(s, e, rom, ram) ==
    [start_addr |-> s, end_addr |-> e, is_rom |-> rom, is_ram |-> ram]

\* Section.size()
SectionSize(section) == section.end_addr - section.start_addr

\* The firmware map of the specification's scenario, ROM [0x0, 0x90000) and
\* RAM [0x90000, 0xA0000), scaled to ROM [0, 8) and RAM [8, 12).
ScenarioSections ==
    << Section(0, 8, TRUE, FALSE), Section(8, 12, FALSE, TRUE) >>

\* the addresses of the scaled address space (12 and 13 lie in no section)
MemAddrs == 0 .. 13

\* the memory of the controller before any write
InitMem == [a \in MemAddrs |-> 0]

SectionTypes == {"ROM", "RAM", ""}

\* Two sections overlap when their half-open ranges share an address.
SectionsOverlap(s1, s2) ==
    s1.start_addr < s2.end_addr /\ s2.start_addr < s1.end_addr

AllSections ==
    { Section(s, e, k, ~k) :
        s \in 0 .. MaxSectionAddr, e \in 0 .. MaxSectionAddr, k \in BOOLEAN }

\* Firmware maps of one or two sections, start <= end, pairwise non-overlapping
\* (adjacent sections allowed), in either list order.
FirmwareMaps ==
    { <<s>> : s \in { x \in AllSections : x.start_addr < x.end_addr } }
    \cup
    { <<s1, s2>> : s1, s2 \in { x \in AllSections : x.start_addr < x.end_addr } }

NonOverlappingMaps ==
    { m \in FirmwareMaps :
        \A i, j \in 1 .. Len(m) : i # j => ~SectionsOverlap(m[i], m[j]) }

(***************************************************************************)
(* Cmd.isAddressInSections (cmds.py 101-111).  The loop over the section   *)
(* list, from section number i on: a section of the wrong type is skipped; *)
(* the first section with start_addr <= address <= end_addr decides.       *)
(***************************************************************************)
\* line 106: the section is taken as the one that holds the address
SectionDecides(section, address, length) ==
    address >= section.start_addr /\ address <= section.end_addr

RECURSIVE SectionLoop(_, _, _, _, _)
SectionLoop(sections, i, address, length, sectiontype) ==
    IF i > Len(sections) THEN FALSE
    ELSE LET section == sections[i] IN
         IF (sectiontype = "ROM" /\ ~section.is_rom)
               \/ (sectiontype = "RAM" /\ ~section.is_ram)
         THEN SectionLoop(sections, i + 1, address, length, sectiontype)
         ELSE IF SectionDecides(section, address, length)
              THEN address + length <= section.end_addr
              ELSE SectionLoop(sections, i + 1, address, length, sectiontype)

isAddressInSections(address, length, sectiontype) ==
    SectionLoop(SECTIONS, 1, address, length, sectiontype)

\* A section matches a kind: ROM, RAM or either ("").
SectionMatches(section, sectiontype) ==
    \/ sectiontype = ""
    \/ sectiontype = "ROM" /\ section.is_rom
    \/ sectiontype = "RAM" /\ section.is_ram

\* Some section matching the kind fully contains [address, address+length).
RangeInSomeSection(address, length, sectiontype) ==
    \E i \in 1 .. Len(SECTIONS) :
        /\ SectionMatches(SECTIONS[i], sectiontype)
        /\ SECTIONS[i].start_addr <= address
        /\ address + length <= SECTIONS[i].end_addr

(***************************************************************************)
(* SpecSections: isAddressInSections applied to every input of the bounded *)
(* sets, over every non-overlapping firmware map.                          *)
(***************************************************************************)
InitSections ==
    /\ SECTIONS \in NonOverlappingMaps
    /\ PATCHRAM_NUMBER_OF_SLOTS = PatchTableSlots
    /\ secIn \in [address : 0 .. MaxSectionAddr + 1,
                  length : 0 .. MaxRangeLen,
                  sectiontype : SectionTypes]
    /\ secOut = NoValue
    /\ mem = InitMem
    /\ writeLast = IdleWriteLast
    /\ patchram = EmptyPatchram
    /\ patchLast = IdlePatchLast
    /\ hook = IdleHook
    /\ monitor = NoMonitors
    /\ monLast = IdleMonLast
    /\ memLast = IdleMemLast
    /\ connLast = IdleConnLast
    /\ channel = IdleChannel
    /\ image = NoImage
    /\ teleLast = IdleTeleLast
    /\ threads = IdleThreads
    /\ execLast = IdleExecLast

CallIsAddressInSections ==
    /\ secOut = NoValue
    /\ secOut' = IF isAddressInSections(secIn.address, secIn.length, secIn.sectiontype)
                  THEN "True" ELSE "False"
    /\ UNCHANGED <<fwVars, secIn>>


NextSections ==
    CallIsAddressInSections /\ UNCHANGED <<writeVars, patchVars, hookVars, monVars, memVars, connVars, lateVars>>

(***************************************************************************)
(* MemoryAccessEngine: firmware memory and the chunked write.              *)
(***************************************************************************)
\* longest data of a write command
MaxWriteLen == 3
\* the most bytes one write request carries (chip-specific, scaled)
WriteChunkSize == 2

Bytes == {0, 1}

\* the data a write command can carry: up to MaxWriteLen equal bytes
WriteData == { [i \in 1 .. n |-> b] : n \in 0 .. MaxWriteLen, b \in Bytes }

\* the addresses given to the write commands: the last byte of ROM, the
\* first byte of RAM, inside RAM, and the end of RAM
WriteAddrs == {7, 8, 10, 12}

Min(a, b) == IF a <= b THEN a ELSE b

\* an address that lies in a RAM section of the firmware map
IsRamAddr(a) ==
    \E i \in 1 .. Len(SECTIONS) :
        SECTIONS[i].is_ram /\ SECTIONS[i].start_addr <= a /\ a < SECTIONS[i].end_addr

\* number of write requests a transfer of n bytes needs
NumChunks(n) == (n + WriteChunkSize - 1) \div WriteChunkSize

\* The memory after the first k write requests of writeMem(address, data)
\* were carried out.  The controller stores a byte only at a RAM address:
\* ROM is immutable and an address outside every section holds nothing.
WriteChunks(m, address, data, k) ==
    LET written == Min(k * WriteChunkSize, Len(data)) IN
    [a \in MemAddrs |->
        IF a >= address /\ a < address + written /\ IsRamAddr(a)
        THEN data[a - address + 1]
        ELSE m[a]]

\* internalblue.writeMem(address, data): the data goes out in NumChunks
\* requests; acked is the number of requests the controller acknowledged.
\* The call succeeds when all were; the first unacknowledged request aborts it
\* and what was written before stays written.
WriteMemOk(data, acked) == acked = NumChunks(Len(data))

WriteMemSent(data, acked) == Min(acked + 1, NumChunks(Len(data)))

WriteMemResult(m, address, data, acked) == WriteChunks(m, address, data, acked)

(***************************************************************************)
(* The write commands: CmdWriteMem.work and CmdWriteAsm.work.              *)
(***************************************************************************)
\* What a write command did: checked is whether it came to the section check,
\* prompted whether it asked the operator, answer the operator's answer, sent
\* the number of write requests sent to the controller, result what it returned.
WriteOutcome(cmd, address, length, checked, prompted, answer, sent, result) ==
    [cmd |-> cmd, address |-> address, length |-> length, checked |-> checked,
     prompted |-> prompted, answer |-> answer, sent |-> sent, result |-> result]

\* mutant: the operator's answer to the warning is not looked at
WriteGoesOnAnyway(inRam, answer) == TRUE

\* lines 729-732 and 797-800: the write goes on when the range is inside a RAM
\* section, or when the operator answers yes to the warning
WriteGoesOn(inRam, answer) == inRam \/ answer

\* The part the two commands share (lines 729-740, 797-808): the section
\* check, the warning, the write and the result.
GatedWrite(cmd, address, data, answer, acked) ==
    LET inRam == isAddressInSections(address, Len(data), "RAM") IN
    IF ~WriteGoesOn(inRam, answer)
    THEN /\ writeLast' = WriteOutcome(cmd, address, Len(data), TRUE, TRUE, FALSE, 0,
                                      FALSE)
         /\ mem' = mem
    ELSE /\ writeLast' = WriteOutcome(cmd, address, Len(data), TRUE, ~inRam,
                                      ~inRam /\ answer, WriteMemSent(data, acked),
                                      WriteMemOk(data, acked))
         /\ mem' = WriteMemResult(mem, address, data, acked)

\* CmdWriteMem.work (lines 705-740).  args: "noargs" when the command line
\* does not parse, "nodata" when neither data nor a file is given, "hexerror"
\* when --hex data is no hex string, "ok" otherwise.
CmdWriteMem(args, address, data, answer, acked) ==
    /\ acked \in 0 .. NumChunks(Len(data))
    /\ CASE args = "noargs" ->
              /\ writeLast' = WriteOutcome("writemem", address, 0, FALSE, FALSE, FALSE, 0, TRUE)
              /\ mem' = mem
         [] args \in {"nodata", "hexerror"} ->
              /\ writeLast' = WriteOutcome("writemem", address, 0, FALSE, FALSE, FALSE, 0, FALSE)
              /\ mem' = mem
         [] OTHER -> GatedWrite("writemem", address, data, answer, acked)
    /\ UNCHANGED fwVars

\* CmdWriteAsm.work (lines 757-808).  args as above; asmok is whether the
\* external assembler accepts the code (it raises otherwise), assembled the
\* machine code it returns; dry is the --dry flag.
CmdWriteAsm(args, address, asmok, assembled, dry, answer, acked) ==
    /\ CASE args = "noargs" ->
              /\ writeLast' = WriteOutcome("writeasm", address, 0, FALSE, FALSE, FALSE, 0, TRUE)
              /\ mem' = mem
         [] args = "nodata" \/ ~asmok \/ Len(assembled) = 0 ->
              /\ writeLast' = WriteOutcome("writeasm", address, 0, FALSE, FALSE, FALSE, 0, FALSE)
              /\ mem' = mem
         [] dry ->
              /\ writeLast' = WriteOutcome("writeasm", address, 0, FALSE, FALSE, FALSE, 0, TRUE)
              /\ mem' = mem
         [] OTHER ->
              /\ acked \in 0 .. NumChunks(Len(assembled))
              /\ GatedWrite("writeasm", address, assembled, answer, acked)
    /\ UNCHANGED fwVars

InitWrite ==
    /\ SECTIONS = ScenarioSections
    /\ PATCHRAM_NUMBER_OF_SLOTS = PatchTableSlots
    /\ secIn = IdleSecIn
    /\ secOut = NoValue
    /\ mem = InitMem
    /\ writeLast = IdleWriteLast
    /\ patchram = EmptyPatchram
    /\ patchLast = IdlePatchLast
    /\ hook = IdleHook
    /\ monitor = NoMonitors
    /\ monLast = IdleMonLast
    /\ memLast = IdleMemLast
    /\ connLast = IdleConnLast
    /\ channel = IdleChannel
    /\ image = NoImage
    /\ teleLast = IdleTeleLast
    /\ threads = IdleThreads
    /\ execLast = IdleExecLast

\* the answers to enumerate: the operator is asked only when the section
\* check fails
Answers(inSection) == IF inSection THEN {FALSE} ELSE BOOLEAN

\* The inputs a command does not read are held at one value.
DoWriteMem ==
    \E address \in WriteAddrs :
        \/ \E args \in {"noargs", "nodata", "hexerror"} :
              CmdWriteMem(args, address, <<>>, FALSE, 0)
        \/ \E data \in WriteData :
              \E answer \in Answers(isAddressInSections(address, Len(data), "RAM")),
                 acked \in 0 .. NumChunks(Len(data)) :
                  CmdWriteMem("ok", address, data, answer, acked)

DoWriteAsm ==
    \E address \in WriteAddrs :
        \/ \E args \in {"noargs", "nodata"} :
              CmdWriteAsm(args, address, TRUE, <<>>, FALSE, FALSE, 0)
        \/ CmdWriteAsm("ok", address, FALSE, <<>>, FALSE, FALSE, 0)
        \/ \E assembled \in WriteData :
              \/ CmdWriteAsm("ok", address, TRUE, assembled, TRUE, FALSE, 0)
              \/ \E answer \in Answers(isAddressInSections(address, Len(assembled), "RAM")),
                    acked \in 0 .. NumChunks(Len(assembled)) :
                     CmdWriteAsm("ok", address, TRUE, assembled, FALSE, answer, acked)

(***************************************************************************)
(* PatchTable: the hardware patch table (patchram) and the operations of   *)
(* internalblue.core on it.                                                *)
(***************************************************************************)

MinOf(S) == CHOOSE x \in S : \A y \in S : x <= y

ActiveSlotsAt(table, address) ==
    { i \in Slots : table[i].active /\ table[i].address = address }

FreeSlots(table) == { i \in Slots : ~table[i].active }

\* mutant: the lookup of an active slot at the address is left out
InstallSlotNoReuse(table, address, slot) ==
    IF slot = None
    THEN IF FreeSlots(table) = {} THEN None ELSE MinOf(FreeSlots(table))
    ELSE IF slot \in Slots THEN slot ELSE None

\* mutant: with no free slot, the last slot is taken over
InstallSlotEvict(table, address, slot) ==
    IF ActiveSlotsAt(table, address) # {} THEN MinOf(ActiveSlotsAt(table, address))
    ELSE IF slot = None
         THEN IF FreeSlots(table) = {}
              THEN PATCHRAM_NUMBER_OF_SLOTS - 1
              ELSE MinOf(FreeSlots(table))
         ELSE IF slot \in Slots THEN slot ELSE None

\* The slot install(address, value, slot) binds: the slot already active at
\* the address (its value is replaced); else the first free slot when no slot
\* is given; else the given slot; None when there is none.
InstallSlot(table, address, slot) ==
    IF ActiveSlotsAt(table, address) # {} THEN MinOf(ActiveSlotsAt(table, address))
    ELSE IF slot = None
         THEN IF FreeSlots(table) = {} THEN None ELSE MinOf(FreeSlots(table))
         ELSE IF slot \in Slots THEN slot ELSE None

InstallError(table, address, slot) ==
    IF InstallSlot(table, address, slot) # None THEN NoValue
    ELSE IF slot = None THEN "NoFreeSlot" ELSE "InvalidSlot"

\* internalblue.patchRom(address, value, slot): the table afterwards
PatchRomTable(table, address, value, slot) ==
    LET i == InstallSlot(table, address, slot) IN
    IF i = None THEN table
    ELSE [table EXCEPT ![i] = [address |-> address, value |-> value, active |-> TRUE]]

\* mutant: only a slot given by number can be removed
RemoveSlotByNumberOnly(table, address, slot) ==
    IF slot # None /\ slot \in Slots /\ table[slot].active THEN slot ELSE None

\* The slot remove(addressOrSlot) frees: the given slot when it is active,
\* else (no slot given) the active slot at the address; None when none matches.
RemoveSlot(table, address, slot) ==
    IF slot # None
    THEN IF slot \in Slots /\ table[slot].active THEN slot ELSE None
    ELSE IF address # None /\ ActiveSlotsAt(table, address) # {}
         THEN MinOf(ActiveSlotsAt(table, address))
         ELSE None

\* internalblue.disableRomPatch(address, slot): the table afterwards
DisableRomPatchTable(table, address, slot) ==
    LET i == RemoveSlot(table, address, slot) IN
    IF i = None THEN table ELSE [table EXCEPT ![i] = FreeSlot]

\* internalblue.getPatchramState(): (table_addresses, table_values, table_slots)
getPatchramState(table) ==
    [table_addresses |-> [i \in Slots |-> table[i].address],
     table_values    |-> [i \in Slots |-> table[i].value],
     table_slots     |-> [i \in Slots |-> IF table[i].active THEN 1 ELSE 0]]


(***************************************************************************)
(* CmdPatch.work (cmds.py 935-989) and CmdInfo.infoPatchram (1109-1118).   *)
(***************************************************************************)
\* the literal 128 of the range check of --slot (line 941); the capacity of
\* the example chip's table is 128 as well
SLOT_ARG_MAX == PATCHRAM_NUMBER_OF_SLOTS

\* line 941: the slot is refused
SlotRefused(slot) == slot < 0 \/ slot > SLOT_ARG_MAX

\* mutant: the last 4 bytes are kept
TruncateDataTail(data) ==
    IF Len(data) > 4 THEN SubSeq(data, Len(data) - 3, Len(data)) ELSE data

\* lines 977-979: data[0:4]
TruncateData(data) ==
    IF Len(data) > 4 THEN SubSeq(data, 1, 4) ELSE data

\* lines 980-982: data.ljust(4, "\x00")
PadData(data) ==
    IF Len(data) < 4 THEN data \o [i \in 1 .. 4 - Len(data) |-> 0] ELSE data

\* the value handed on, after both adjustments
PatchValue(data) == PadData(TruncateData(data))

\* the warnings of lines 978 and 981
PatchWarnings(data) ==
    (IF Len(data) > 4 THEN {"truncate"} ELSE {})
    \cup (IF Len(TruncateData(data)) < 4 THEN {"pad"} ELSE {})

\* mutant: the operator's answer to the warning is not looked at
PatchGoesOnAnyway(inRom, answer) == TRUE

\* lines 984-987: the install goes on when the range is inside a ROM section,
\* or when the operator answers yes to the warning
PatchGoesOn(inRom, answer) == inRom \/ answer

PatchOutcome(op, address, slot, data, value, warned, prompted, answer, reached, index, result, error) ==
    [op |-> op, address |-> address, slot |-> slot, data |-> data, value |-> value,
     warned |-> warned, prompted |-> prompted, answer |-> answer,
     reached |-> reached, index |-> index, result |-> result, error |-> error]

\* a command that returns before it calls into the patch table
PatchReturns(op, slot, result) ==
    /\ patchLast' = PatchOutcome(op, None, slot, <<>>, <<>>, {}, FALSE, FALSE, FALSE,
                                 None, result, NoValue)
    /\ patchram' = patchram

\* lines 946-954: patch deletion
PatchDelete(address, slot) ==
    IF slot = None /\ address = None
    THEN PatchReturns("delete", slot, FALSE)
    ELSE LET i == RemoveSlot(patchram, address, slot) IN
         /\ patchLast' = PatchOutcome("delete", address, slot, <<>>, <<>>, {}, FALSE,
                                      FALSE, TRUE, i, i # None,
                                      IF i = None THEN "NotFound" ELSE NoValue)
         /\ patchram' = DisableRomPatchTable(patchram, address, slot)

\* lines 977-989: the adjustment of the data, the section check, the warning
\* and the call of patchRom
PatchInstall(address, slot, data, answer) ==
    LET value == PatchValue(data)
        inRom == isAddressInSections(address, Len(value), "ROM")
    IN
    IF ~PatchGoesOn(inRom, answer)
    THEN /\ patchLast' = PatchOutcome("install", address, slot, data, value,
                                      PatchWarnings(data), TRUE, FALSE, FALSE, None,
                                      FALSE, NoValue)
         /\ patchram' = patchram
    ELSE LET i == InstallSlot(patchram, address, slot) IN
         /\ patchLast' = PatchOutcome("install", address, slot, data, value,
                                      PatchWarnings(data), ~inRom, ~inRom /\ answer,
                                      TRUE, i, i # None,
                                      InstallError(patchram, address, slot))
         /\ patchram' = PatchRomTable(patchram, address, value, slot)

\* CmdPatch.work.  args: "noargs" when the command line does not parse, "nodata"
\* when no data is given, "hexerror" when --hex data is no hex string, "ok"
\* otherwise; delete is the --delete flag.
CmdPatch(args, slot, delete, address, data, answer) ==
    /\ CASE args = "noargs" -> PatchReturns("noargs", None, TRUE)
         [] args # "noargs" /\ slot # None /\ SlotRefused(slot) ->
              PatchReturns("refused", slot, FALSE)
         [] args # "noargs" /\ ~(slot # None /\ SlotRefused(slot)) /\ delete ->
              PatchDelete(address, slot)
         [] OTHER ->
              IF address = None \/ args \in {"nodata", "hexerror"}
              THEN PatchReturns("install", slot, FALSE)
              ELSE PatchInstall(address, slot, data, answer)
    /\ UNCHANGED fwVars

\* mutant: the test of table_slots[i] is left out
infoPatchramAll(table) ==
    LET state == getPatchramState(table) IN
    { [index |-> i, address |-> state.table_addresses[i],
       value |-> state.table_values[i]] : i \in 0 .. PATCHRAM_NUMBER_OF_SLOTS - 1 }

\* CmdInfo.infoPatchram: the lines it logs, one per slot in use
infoPatchram(table) ==
    LET state == getPatchramState(table) IN
    { [index |-> i, address |-> state.table_addresses[i],
       value |-> state.table_values[i]] :
        i \in { j \in 0 .. PATCHRAM_NUMBER_OF_SLOTS - 1 : state.table_slots[j] = 1 } }

(***************************************************************************)
(* SpecPatch: patch commands in any order on an initially empty table.     *)
(***************************************************************************)
\* a ROM address for every slot of the table, every second one from 0 on
\* (the ROM of the scenario ends at 8), and the first RAM address
PatchAddrs == { 2 * i : i \in 0 .. PATCHRAM_NUMBER_OF_SLOTS - 1 } \cup {8}

\* data of 1, 4 and 5 bytes
PatchData == { <<7>>, <<1, 2, 3, 4>>, <<1, 2, 3, 4, 5>> }

\* no slot, a negative slot, the first and the last slot of the table, N
\* and N + 1
SlotArgs ==
    {None, -1, 0, PATCHRAM_NUMBER_OF_SLOTS - 1, PATCHRAM_NUMBER_OF_SLOTS,
     PATCHRAM_NUMBER_OF_SLOTS + 1}

InitPatch ==
    /\ SECTIONS = ScenarioSections
    /\ PATCHRAM_NUMBER_OF_SLOTS = PatchTableSlots
    /\ secIn = IdleSecIn
    /\ secOut = NoValue
    /\ mem = InitMem
    /\ writeLast = IdleWriteLast
    /\ patchram = EmptyPatchram
    /\ patchLast = IdlePatchLast
    /\ hook = IdleHook
    /\ monitor = NoMonitors
    /\ monLast = IdleMonLast
    /\ memLast = IdleMemLast
    /\ connLast = IdleConnLast
    /\ channel = IdleChannel
    /\ image = NoImage
    /\ teleLast = IdleTeleLast
    /\ threads = IdleThreads
    /\ execLast = IdleExecLast

\* the slot arguments the range check of line 941 refuses, and the others
RefusedSlotArgs == { slot \in SlotArgs : slot # None /\ SlotRefused(slot) }

PassedSlotArgs == SlotArgs \ RefusedSlotArgs

\* The inputs a command does not read are held at one value.
\* a command line that does not parse, or holds no data or bad data
DoPatchBadArgs ==
    \E args \in {"noargs", "nodata", "hexerror"} :
        CmdPatch(args, None, FALSE, 0, <<7>>, FALSE)

\* a slot the range check refuses, with or without --delete
DoPatchRefused ==
    \E slot \in RefusedSlotArgs, delete \in BOOLEAN :
        CmdPatch("ok", slot, delete, 0, <<7>>, FALSE)

\* patch --delete, by slot, by address, by both or with neither
DoPatchDelete ==
    \E slot \in PassedSlotArgs, address \in PatchAddrs \cup {None} :
        /\ slot # None => address \in {None, 0}
        /\ CmdPatch("ok", slot, TRUE, address, <<7>>, FALSE)

\* an install without --address
DoPatchNoAddress ==
    \E slot \in PassedSlotArgs : CmdPatch("ok", slot, FALSE, None, <<7>>, FALSE)

\* an install
DoPatchInstall ==
    \E slot \in PassedSlotArgs, address \in PatchAddrs, data \in PatchData :
        \E answer \in Answers(isAddressInSections(address, Len(PatchValue(data)), "ROM")) :
            CmdPatch("ok", slot, FALSE, address, data, answer)

NextPatch ==
    \/ DoPatchBadArgs /\ UNCHANGED <<sectionVars, writeVars, hookVars, monVars, memVars, connVars, lateVars>>
    \/ DoPatchRefused /\ UNCHANGED <<sectionVars, writeVars, hookVars, monVars, memVars, connVars, lateVars>>
    \/ DoPatchDelete /\ UNCHANGED <<sectionVars, writeVars, hookVars, monVars, memVars, connVars, lateVars>>
    \/ DoPatchNoAddress /\ UNCHANGED <<sectionVars, writeVars, hookVars, monVars, memVars, connVars, lateVars>>
    \/ DoPatchInstall /\ UNCHANGED <<sectionVars, writeVars, hookVars, monVars, memVars, connVars, lateVars>>

NextWrite ==
    \/ DoWriteMem /\ UNCHANGED <<sectionVars, patchVars, hookVars, monVars, memVars, connVars, lateVars>>
    \/ DoWriteAsm /\ UNCHANGED <<sectionVars, patchVars, hookVars, monVars, memVars, connVars, lateVars>>


(***************************************************************************)
(* The hook installation script (examples/bla.py 105-146).                 *)
(***************************************************************************)
\* bla.py 51, scaled: the start of RAM
HOOKS_LOCATION == 8
\* bla.py 44-46, scaled: three call sites in ROM
PK_RECV_HOOK_ADDRESS == 0
PK_SEND_HOOK_ADDRESS == 2
GEN_PRIV_KEY_ADDRESS == 4

\* the machine code of ASM_HOOKS (line 110), scaled to 4 bytes
HookCode == <<1, 1, 1, 1>>

\* the 4 bytes of "bl target" (lines 119, 125, 136, 143)
Bl(target) == <<9, target, 0, 0>>

HookSites == <<PK_RECV_HOOK_ADDRESS, PK_SEND_HOOK_ADDRESS, GEN_PRIV_KEY_ADDRESS>>

HookPatchPc == <<"patch1", "patch2", "patch3", "patch4">>

HookCall(op, ok) == [op |-> op, ok |-> ok]

\* memory holds data at address
MemHolds(m, address, data) ==
    \A i \in 1 .. Len(data) : m[address + i - 1] = data[i]

\* line 105-107
HookConnect(ok) ==
    /\ hook.pc = "connect"
    /\ hook' = [hook EXCEPT !.pc = IF ok THEN "asm_hooks" ELSE "exited"]
    /\ UNCHANGED <<fwVars, mem, patchram>>

\* line 110: the external assembler returns the code or raises
HookAssemble(asmok) ==
    /\ hook.pc = "asm_hooks"
    /\ hook' = [hook EXCEPT !.pc = IF asmok THEN "write" ELSE "crashed"]
    /\ UNCHANGED <<fwVars, mem, patchram>>

\* mutant: the result of writeMem is not looked at
AfterWriteNoExit(ok) == "patch1"

\* lines 112-114: exit(-1) when writeMem returns false
AfterWrite(ok) == IF ok THEN "patch1" ELSE "exited"

\* lines 112-114
HookWrite(acked) ==
    /\ hook.pc = "write"
    /\ acked \in 0 .. NumChunks(Len(HookCode))
    /\ mem' = WriteMemResult(mem, HOOKS_LOCATION, HookCode, acked)
    /\ hook' = [hook EXCEPT
                  !.pc = AfterWrite(WriteMemOk(HookCode, acked)),
                  !.calls = Append(@, HookCall("writeMem", WriteMemOk(HookCode, acked)))]
    /\ UNCHANGED <<fwVars, patchram>>

\* mutant: the result of patchRom is not looked at
AfterPatchNoExit(k, ok) == HookPatchPc[k + 1]

\* lines 120-122, 126-128, 137-139: exit(-1) when patchRom returns false
AfterPatch(k, ok) == IF ok THEN HookPatchPc[k + 1] ELSE "exited"

\* lines 119-122, 125-128, 136-139: assemble the branch, install the patch,
\* exit(-1) when patchRom returns false
HookPatch(k, asmok) ==
    /\ k \in 1 .. 3
    /\ hook.pc = HookPatchPc[k]
    /\ IF ~asmok
       THEN /\ hook' = [hook EXCEPT !.pc = "crashed"]
            /\ patchram' = patchram
       ELSE LET ok == InstallSlot(patchram, HookSites[k], None) # None IN
            /\ patchram' = PatchRomTable(patchram, HookSites[k],
                                         Bl(HOOKS_LOCATION + 2 * (k - 1)), None)
            /\ hook' = [hook EXCEPT
                          !.pc = AfterPatch(k, ok),
                          !.calls = Append(@, HookCall("patchRom", ok))]
    /\ UNCHANGED <<fwVars, mem>>

\* lines 143-146: EK_REQ_HOOK_ADDRESS is the string 'TODO', no address: the
\* assembler raises on it, or patchRom is called with it and fails
HookPatchTodo(asmok) ==
    /\ hook.pc = "patch4"
    /\ IF ~asmok
       THEN hook' = [hook EXCEPT !.pc = "crashed"]
       ELSE hook' = [hook EXCEPT !.pc = "exited",
                                 !.calls = Append(@, HookCall("patchRom", FALSE))]
    /\ UNCHANGED <<fwVars, mem, patchram>>

\* The table the script finds: the first k slots hold patches of the
\* firmware vendor, at ROM addresses that are no call site of the script.
VendorTable(k) ==
    [i \in Slots |->
        IF i < k THEN [address |-> 2 * i + 1, value |-> <<0, 0, 0, 0>>, active |-> TRUE]
        ELSE FreeSlot]

\* What the script finds in RAM: any content but the hook code.
InitHookMems ==
    { [a \in MemAddrs |-> IF a \in DOMAIN f THEN f[a] ELSE 0] :
        f \in [HOOKS_LOCATION .. HOOKS_LOCATION + Len(HookCode) - 1 -> {0, 2}] }

InitHook ==
    /\ SECTIONS = ScenarioSections
    /\ PATCHRAM_NUMBER_OF_SLOTS = HookTableSlots
    /\ mem \in InitHookMems
    /\ patchram \in { VendorTable(k) : k \in 0 .. PATCHRAM_NUMBER_OF_SLOTS }
    /\ hook = [pc |-> "connect", calls |-> <<>>]
    /\ secIn = IdleSecIn
    /\ secOut = NoValue
    /\ writeLast = IdleWriteLast
    /\ patchLast = IdlePatchLast
    /\ monitor = NoMonitors
    /\ monLast = IdleMonLast
    /\ memLast = IdleMemLast
    /\ connLast = IdleConnLast
    /\ channel = IdleChannel
    /\ image = NoImage
    /\ teleLast = IdleTeleLast
    /\ threads = IdleThreads
    /\ execLast = IdleExecLast

NextHook ==
    \/ (\E ok \in BOOLEAN : HookConnect(ok))
          /\ UNCHANGED <<sectionVars, writeLast, patchLast, monVars, memVars, connVars, lateVars>>
    \/ (\E asmok \in BOOLEAN : HookAssemble(asmok))
          /\ UNCHANGED <<sectionVars, writeLast, patchLast, monVars, memVars, connVars, lateVars>>
    \/ (\E acked \in 0 .. NumChunks(Len(HookCode)) : HookWrite(acked))
          /\ UNCHANGED <<sectionVars, writeLast, patchLast, monVars, memVars, connVars, lateVars>>
    \/ (\E k \in 1 .. 3, asmok \in BOOLEAN : HookPatch(k, asmok))
          /\ UNCHANGED <<sectionVars, writeLast, patchLast, monVars, memVars, connVars, lateVars>>
    \/ (\E asmok \in BOOLEAN : HookPatchTodo(asmok))
          /\ UNCHANGED <<sectionVars, writeLast, patchLast, monVars, memVars, connVars, lateVars>>

(***************************************************************************)
(* MonitorPipeline: CmdMonitor and its MonitorController (cmds.py 233-430). *)
(* A handler (a command, a timer function, a callback) is one step.        *)
(***************************************************************************)
\* the most items (global header and records) written to one viewer
MaxStream == 2
\* the longest payload of a captured event
MaxPayloadLen == 1

\* lines 243 and 252: the pcap data link types, 0xC9 and 0x01
HCI_DATA_LINK_TYPE == 201
LMP_DATA_LINK_TYPE == 1

\* a threading.Timer object (line 293) and a subprocess.Popen object (287)
TimerObject == 0
PopenObject == 0
\* the exit status of a process ended by terminate(): -SIGTERM
Terminated == -15

\* lines 259-265: __MonitorController.__init__
NewController(m, pcap_data_link_type) ==
    [m EXCEPT !.created = TRUE, !.made = @ + 1, !.running = FALSE,
              !.wireshark_process = None, !.poll_timer = None,
              !.pcap_data_link_type = pcap_data_link_type]

\* mutant: a controller is constructed on every request
getMonitorControllerFresh(m, name) ==
    NewController(m, IF name = "hci" THEN HCI_DATA_LINK_TYPE ELSE LMP_DATA_LINK_TYPE)

\* lines 237-257: MonitorController.getMonitorController for "hci" or "lmp":
\* the instance of the kind, constructed on the first request
getMonitorController(m, name) ==
    IF ~m.created
    THEN NewController(m, IF name = "hci" THEN HCI_DATA_LINK_TYPE
                                          ELSE LMP_DATA_LINK_TYPE)
    ELSE m

\* lines 269-285: the global header of the capture stream, of which the
\* link type differs between the kinds
GlobalHeader(linktype) == [tag |-> "header", linktype |-> linktype]

\* a record in the stream of a viewer
RecordItem == [tag |-> "record", linktype |-> 0]

\* lines 267-294: _spawnWireshark: launch the viewer, write the global header,
\* start the poll timer
spawnWireshark(m) ==
    [m EXCEPT !.wireshark_process = PopenObject,
              !.status = None,
              !.stdin = <<GlobalHeader(m.pcap_data_link_type)>>,
              !.poll_timer = TimerObject, !.timer_pending = TRUE]

\* internalblue.registerHciCallback / startLmpMonitor: the HCI event path
\* keeps a list of callbacks, the LMP monitor has one callback
RegisterCallback(name, registered) ==
    IF name = "hci" THEN registered + 1 ELSE 1

\* internalblue.unregisterHciCallback / stopLmpMonitor
UnregisterCallback(name, registered) ==
    IF name = "hci" THEN (IF registered > 0 THEN registered - 1 ELSE 0) ELSE 0

\* mutant: the test of self.running is left out
StartRefusedNever(m) == FALSE

\* lines 309-311 and 331-333
StartRefused(m) == m.running

\* mutant: the viewer is launched on every start
startMonitorAlwaysSpawn(m, name, spawnok) ==
    IF StartRefused(m) THEN m
    ELSE [spawnWireshark([m EXCEPT !.running = TRUE])
             EXCEPT !.registered = RegisterCallback(name, @)]

\* lines 308-319 and 330-341: startHciMonitor / startLmpMonitor.  spawnok is
\* whether the viewer can be launched (Popen raises OSError otherwise).
startMonitor(m, name, spawnok) ==
    IF StartRefused(m) THEN m
    ELSE LET m1 == [m EXCEPT !.running = TRUE] IN
         IF m1.wireshark_process = None /\ ~spawnok THEN m1
         ELSE LET m2 == IF m1.wireshark_process = None THEN spawnWireshark(m1)
                        ELSE m1 IN
              [m2 EXCEPT !.registered = RegisterCallback(name, @)]

\* mutant: stop also drops the viewer process
stopMonitorDetach(m, name) ==
    IF ~m.running THEN m
    ELSE [m EXCEPT !.registered = UnregisterCallback(name, @), !.running = FALSE,
                   !.wireshark_process = None]

\* lines 321-328 and 343-350: stopHciMonitor / stopLmpMonitor
stopMonitor(m, name) ==
    IF ~m.running THEN m
    ELSE [m EXCEPT !.registered = UnregisterCallback(name, @), !.running = FALSE]

\* mutant: the timer is not cancelled
cancelTimerNot(m) == m

\* lines 355-357
cancelTimer(m) ==
    IF m.poll_timer # None
    THEN [m EXCEPT !.timer_pending = FALSE, !.poll_timer = None]
    ELSE m

\* lines 352-365: killMonitor.  terminate() ends a running viewer; on a
\* viewer that has exited it may raise OSError, which is logged.
killMonitor(m, name) ==
    LET m1 == IF m.running THEN stopMonitor(m, name) ELSE m
        m2 == cancelTimer(m1)
    IN IF m2.wireshark_process # None
       THEN [m2 EXCEPT !.status = IF @ = None THEN Terminated ELSE @,
                       !.wireshark_process = None, !.stdin = <<>>]
       ELSE m2

\* line 298: self.wireshark_process.poll() == 0
ViewerEnded(status) == status = 0

\* lines 296-306: _pollTimer, run when the timer fires
pollTimer(m, name) ==
    LET m0 == [m EXCEPT !.timer_pending = FALSE] IN
    IF m0.running /\ m0.wireshark_process # None
    THEN IF ViewerEnded(m0.status)
         THEN [stopMonitor(m0, name) EXCEPT !.wireshark_process = None, !.stdin = <<>>]
         ELSE [m0 EXCEPT !.poll_timer = TimerObject, !.timer_pending = TRUE]
    ELSE m0

\* mutant: the pseudo-header is left out
HciPacketBare(raw, flags) == <<flags % 2>> \o raw

\* lines 374-376: dummy + direction + hcipkt.getRaw()
HciPacket(raw, flags) == <<0, 0, 0>> \o <<flags % 2>> \o raw

\* a device address
BdAddr(b) == <<b, b, b, b, b, b>>

\* lines 390-395: eth_header + meta_data + packet_header + lmp_packet + CRC
LmpPacket(lmp_packet, sendByOwnDevice, src, dest) ==
    dest \o src \o <<255, 240>>
      \o (IF sendByOwnDevice THEN <<0, 0, 0, 0, 0, 0>> ELSE <<1, 0, 0, 0, 0, 0>>)
      \o <<25, 0, 0, (Len(lmp_packet) * 8 + 7) % 256>>
      \o lmp_packet \o <<0, 0>>

\* lines 377-380 and 396-399: struct.pack('@ I I I I', ts_sec, ts_usec,
\* length, length) with length = len(packet); a packet is far shorter than
\* the 2^32 bytes an unsigned 32-bit field can count
PcapRecord(packet, payload) ==
    [incl_len |-> Len(packet), orig_len |-> Len(packet), payload_len |-> Len(payload)]

\* mutant: a failed write is ignored
writeRecordNoKill(m, name, record) ==
    IF m.status = None
    THEN [m EXCEPT !.stdin = Append(@, RecordItem)]
    ELSE m

\* lines 381-387 and 400-406: the write of the record to the viewer's input;
\* it fails with IOError (broken pipe) when the viewer has exited, and then
\* the monitor is killed.
writeRecord(m, name, record) ==
    IF m.status = None
    THEN [m EXCEPT !.stdin = Append(@, RecordItem)]
    ELSE killMonitor(m, name)

MonOutcome(op, kind, result, logged, raised) ==
    [op |-> op, kind |-> kind, result |-> result, logged |-> logged, raised |-> raised,
     record |-> NoRecord]

\* the warning of killMonitor when terminate() raises
KillLog(m, termerr) ==
    IF m.wireshark_process # None /\ m.status # None /\ termerr
    THEN {"termination error"} ELSE {}

\* CmdMonitor.work (lines 409-430).  args: "noargs" when the command line does
\* not parse; type and command are the two arguments.
CmdMonitor(args, type, command, spawnok, termerr) ==
    IF args = "noargs"
    THEN /\ monLast' = MonOutcome("noargs", NoValue, "True", {}, NoValue)
         /\ monitor' = monitor
    ELSE IF type \notin Kinds
    THEN /\ monLast' = MonOutcome(command, type, "False", {"unknown type"}, NoValue)
         /\ monitor' = monitor
    ELSE
    LET m == getMonitorController(monitor[type], type) IN
    CASE command = "start" ->
           /\ monitor' = [monitor EXCEPT ![type] = startMonitor(m, type, spawnok)]
           /\ monLast' =
                IF StartRefused(m)
                THEN MonOutcome("start", type, "False", {"already running"}, NoValue)
                ELSE IF m.wireshark_process = None /\ ~spawnok
                THEN MonOutcome("start", type, NoValue, {}, "OSError")
                ELSE MonOutcome("start", type, "True", {}, NoValue)
      [] command = "status" ->
           /\ monitor' = [monitor EXCEPT ![type] = m]
           /\ monLast' = MonOutcome("status", type,
                                    IF m.running THEN "True" ELSE "False", {}, NoValue)
      [] command = "stop" ->
           /\ monitor' = [monitor EXCEPT ![type] = stopMonitor(m, type)]
           /\ monLast' =
                IF m.running THEN MonOutcome("stop", type, "True", {}, NoValue)
                ELSE MonOutcome("stop", type, "False", {"not running"}, NoValue)
      [] command = "kill" ->
           /\ monitor' = [monitor EXCEPT ![type] = killMonitor(m, type)]
           /\ monLast' = MonOutcome("kill", type, NoValue, KillLog(m, termerr), NoValue)
      [] OTHER ->
           /\ monitor' = [monitor EXCEPT ![type] = m]
           /\ monLast' = MonOutcome(command, type, "False", {"unknown subcommand"},
                                    NoValue)

\* One poll interval passes for the timer of a kind: a waiting timer fires
\* and runs _pollTimer.
PollInterval(name) ==
    /\ monitor[name].created
    /\ monitor' = [monitor EXCEPT ![name] =
                      IF @.timer_pending THEN pollTimer(@, name) ELSE @]
    /\ monLast' = MonOutcome("poll", name,
                             IF monitor[name].timer_pending THEN "fired" ELSE "no timer",
                             {}, NoValue)

\* The viewer process of a kind exits by itself, with an exit status.
ViewerExit(name, status) ==
    /\ monitor[name].wireshark_process # None
    /\ monitor[name].status = None
    /\ monitor' = [monitor EXCEPT ![name].status = status]
    /\ monLast' = MonOutcome("exit", name, NoValue, {}, NoValue)

\* the callback with a record: the write, or the kill when the write fails
Callback(name, record, termerr) ==
    LET m == monitor[name] IN
    /\ m.registered > 0
    /\ m.status = None => Len(m.stdin) < MaxStream
    /\ IF m.wireshark_process = None
       THEN /\ monitor' = monitor
            /\ monLast' = [MonOutcome("callback", name, NoValue, {}, "AttributeError")
                             EXCEPT !.record = record]
       ELSE /\ monitor' = [monitor EXCEPT ![name] = writeRecord(m, name, record)]
            /\ monLast' = [MonOutcome("callback", name,
                                      IF m.status = None THEN "written" ELSE "killed",
                                      IF m.status = None THEN {}
                                      ELSE {"broken pipe"} \cup KillLog(m, termerr),
                                      NoValue)
                             EXCEPT !.record = record]

\* lines 371-387: hciCallback, called by the event path with a record
hciCallback(raw, flags, termerr) ==
    Callback("hci", PcapRecord(HciPacket(raw, flags), raw), termerr)

\* lines 389-406: lmpCallback
lmpCallback(lmp_packet, sendByOwnDevice, src, dest, termerr) ==
    Callback("lmp", PcapRecord(LmpPacket(lmp_packet, sendByOwnDevice, src, dest),
                               lmp_packet), termerr)

Payloads == { [i \in 1 .. n |-> 1] : n \in 0 .. MaxPayloadLen }

InitMonitor ==
    /\ SECTIONS = ScenarioSections
    /\ PATCHRAM_NUMBER_OF_SLOTS = PatchTableSlots
    /\ secIn = IdleSecIn
    /\ secOut = NoValue
    /\ mem = InitMem
    /\ writeLast = IdleWriteLast
    /\ patchram = EmptyPatchram
    /\ patchLast = IdlePatchLast
    /\ hook = IdleHook
    /\ monitor = NoMonitors
    /\ monLast = IdleMonLast
    /\ memLast = IdleMemLast
    /\ connLast = IdleConnLast
    /\ channel = IdleChannel
    /\ image = NoImage
    /\ teleLast = IdleTeleLast
    /\ threads = IdleThreads
    /\ execLast = IdleExecLast

\* terminate() can raise only on a viewer that has exited
TermErrs(m) ==
    IF m.wireshark_process # None /\ m.status # None THEN BOOLEAN ELSE {FALSE}

\* monitor <type> start|status|stop|kill, for the two kinds
DoMonitorStart ==
    \E type \in Kinds, spawnok \in BOOLEAN :
        CmdMonitor("ok", type, "start", spawnok, FALSE)

DoMonitorStatus == \E type \in Kinds : CmdMonitor("ok", type, "status", TRUE, FALSE)

DoMonitorStop == \E type \in Kinds : CmdMonitor("ok", type, "stop", TRUE, FALSE)

DoMonitorKill ==
    \E type \in Kinds :
        \E termerr \in TermErrs(monitor[type]) :
            CmdMonitor("ok", type, "kill", TRUE, termerr)

\* a command line that does not parse, an unknown type, an unknown subcommand
DoMonitorBadArgs ==
    \/ CmdMonitor("noargs", "hci", "start", TRUE, FALSE)
    \/ CmdMonitor("ok", "foo", "start", TRUE, FALSE)
    \/ CmdMonitor("ok", "hci", "foo", TRUE, FALSE)

DoHciCallback ==
    \E raw \in Payloads, flags \in 0 .. 1, termerr \in TermErrs(monitor["hci"]) :
        hciCallback(raw, flags, termerr)

DoLmpCallback ==
    \E lmp_packet \in Payloads, sendByOwnDevice \in BOOLEAN,
       termerr \in TermErrs(monitor["lmp"]) :
        lmpCallback(lmp_packet, sendByOwnDevice, BdAddr(1), BdAddr(2), termerr)

NextMonitor ==
    \/ DoMonitorStart /\ UNCHANGED <<fwVars, sectionVars, writeVars, patchVars, hookVars, memVars, connVars, lateVars>>
    \/ DoMonitorStatus /\ UNCHANGED <<fwVars, sectionVars, writeVars, patchVars, hookVars, memVars, connVars, lateVars>>
    \/ DoMonitorStop /\ UNCHANGED <<fwVars, sectionVars, writeVars, patchVars, hookVars, memVars, connVars, lateVars>>
    \/ DoMonitorKill /\ UNCHANGED <<fwVars, sectionVars, writeVars, patchVars, hookVars, memVars, connVars, lateVars>>
    \/ DoMonitorBadArgs /\ UNCHANGED <<fwVars, sectionVars, writeVars, patchVars, hookVars, memVars, connVars, lateVars>>
    \/ (\E name \in Kinds : PollInterval(name))
          /\ UNCHANGED <<fwVars, sectionVars, writeVars, patchVars, hookVars, memVars, connVars, lateVars>>
    \/ (\E name \in Kinds, status \in 0 .. 1 : ViewerExit(name, status))
          /\ UNCHANGED <<fwVars, sectionVars, writeVars, patchVars, hookVars, memVars, connVars, lateVars>>
    \/ DoHciCallback /\ UNCHANGED <<fwVars, sectionVars, writeVars, patchVars, hookVars, memVars, connVars, lateVars>>
    \/ DoLmpCallback /\ UNCHANGED <<fwVars, sectionVars, writeVars, patchVars, hookVars, memVars, connVars, lateVars>>

(***************************************************************************)
(* Cmd.readMem and Cmd.writeMem (lines 113-117): a write to RAM and the    *)
(* read of the same range.                                                 *)
(***************************************************************************)
\* The scenario's firmware map with a RAM section that holds a transfer of
\* four chunks: ROM [0, 2) and RAM [2, 12).
WideRamSections ==
    << Section(0, 2, TRUE, FALSE), Section(2, 12, FALSE, TRUE) >>

\* internalblue.readMem(address, length): the bytes are fetched in chunks of
\* at most WriteChunkSize bytes, one read request each, and joined in order
RECURSIVE ReadChunks(_, _, _)
ReadChunks(m, address, length) ==
    IF length <= 0 THEN <<>>
    ELSE LET n == Min(length, WriteChunkSize) IN
         [i \in 1 .. n |-> m[address + i - 1]] \o ReadChunks(m, address + n, length - n)

\* mutant: only the first chunk is fetched
readMemOneChunk(m, address, length) ==
    ReadChunks(m, address, Min(length, WriteChunkSize))

\* lines 113-114: Cmd.readMem hands address and length to internalblue.readMem
readMem(m, address, length) == ReadChunks(m, address, length)

\* lines 116-117: Cmd.writeMem hands address and data to internalblue.writeMem
writeMem(m, address, data, acked) == WriteMemResult(m, address, data, acked)

\* the lengths of the transfers: 1, 4, one chunk, one chunk and a byte,
\* four chunks
TransferLens == {1, 4, WriteChunkSize, WriteChunkSize + 1, 4 * WriteChunkSize}

\* the data of a transfer: bytes that differ from one position to the next
TransferData == { [i \in 1 .. n |-> 1 + (i % 2)] : n \in TransferLens }

\* the addresses of the transfers: the last byte of ROM, the first byte of
\* RAM, inside RAM
TransferAddrs == {1, 2, 4}

\* a call of Cmd.writeMem; acked is the number of write requests the
\* controller acknowledges
CallWriteMem(address, data, acked) ==
    /\ mem' = writeMem(mem, address, data, acked)
    /\ memLast' = [op |-> "writeMem", address |-> address, length |-> Len(data),
                   data |-> data, ok |-> WriteMemOk(data, acked), bytes |-> <<>>]

\* a call of Cmd.readMem; answered is whether the controller answers all the
\* read requests (the call returns nothing otherwise)
CallReadMem(address, length, answered) ==
    /\ mem' = mem
    /\ memLast' = [op |-> "readMem", address |-> address, length |-> length,
                   data |-> <<>>, ok |-> answered,
                   bytes |-> IF answered THEN readMem(mem, address, length) ELSE <<>>]

InitTransfer ==
    /\ SECTIONS = WideRamSections
    /\ PATCHRAM_NUMBER_OF_SLOTS = PatchTableSlots
    /\ secIn = IdleSecIn
    /\ secOut = NoValue
    /\ mem = InitMem
    /\ writeLast = IdleWriteLast
    /\ patchram = EmptyPatchram
    /\ patchLast = IdlePatchLast
    /\ hook = IdleHook
    /\ monitor = NoMonitors
    /\ monLast = IdleMonLast
    /\ memLast = IdleMemLast
    /\ connLast = IdleConnLast
    /\ channel = IdleChannel
    /\ image = NoImage
    /\ teleLast = IdleTeleLast
    /\ threads = IdleThreads
    /\ execLast = IdleExecLast

\* the last write request or all of them are acknowledged
DoCallWriteMem ==
    \E address \in TransferAddrs, data \in TransferData :
        \E acked \in {NumChunks(Len(data)) - 1, NumChunks(Len(data))} :
            CallWriteMem(address, data, acked)

DoCallReadMem ==
    \E address \in TransferAddrs, length \in TransferLens, answered \in BOOLEAN :
        CallReadMem(address, length, answered)

NextTransfer ==
    \/ DoCallWriteMem
          /\ UNCHANGED <<fwVars, sectionVars, writeLast, patchVars, hookVars, monVars, connVars, lateVars>>
    \/ DoCallReadMem
          /\ UNCHANGED <<fwVars, sectionVars, writeLast, patchVars, hookVars, monVars, connVars, lateVars>>

(***************************************************************************)
(* ConnectionRegistry and the commands that query it: CmdSendLmp.work      *)
(* (lines 1011-1061) and CmdInfo.infoConnections (lines 1073-1093).        *)
(***************************************************************************)
\* number of records of the connection array of the firmware
ConnectionArraySize == 2

\* records the input pipe of the viewer holds before a write to it waits
PipeCapacity == 2

\* fw.CONNECTION_ARRAY_SIZE
CONNECTION_ARRAY_SIZE == ConnectionArraySize

\* the connection array in RAM, scaled: it starts at the first byte of the
\* RAM section, and a record has two bytes, the connection number and the
\* remote address
ConnectionArrayBase == 2
ConnectionRecordSize == 2

ConnectionAddress(index) == ConnectionArrayBase + (index - 1) * ConnectionRecordSize

\* what readConnectionInformation gives back: raised is the exception it
\* raises, read whether it read the record from memory, none whether it
\* returns None, and the decoded fields otherwise
ConnectionResult(raised, read, none, connection_number, remote_address) ==
    [raised |-> raised, read |-> read, none |-> none,
     connection_number |-> connection_number, remote_address |-> remote_address]

\* internalblue.readConnectionInformation(index): the index is checked, the
\* record is read with readMem and decoded, and a record with the remote
\* address zero gives None
readConnectionInformation(m, index) ==
    IF index < 1 \/ index > CONNECTION_ARRAY_SIZE
    THEN ConnectionResult("IndexError", FALSE, TRUE, 0, 0)
    ELSE LET record == readMem(m, ConnectionAddress(index), ConnectionRecordSize) IN
         IF record[2] = 0
         THEN ConnectionResult(NoValue, TRUE, TRUE, 0, 0)
         ELSE ConnectionResult(NoValue, TRUE, FALSE, record[1], record[2])

\* mutant: the loop passes i instead of i + 1
LoopIndexesFromZero == [i \in 1 .. CONNECTION_ARRAY_SIZE |-> i - 1]

\* lines 1022-1023 and 1074-1075: for i in range(CONNECTION_ARRAY_SIZE) the
\* loops pass i + 1
LoopIndexes == [i \in 1 .. CONNECTION_ARRAY_SIZE |-> i]

\* the position of the first index of a loop that raises, or one past the end
FirstRaise(m, idxs) ==
    LET bad == { k \in 1 .. Len(idxs) :
                    readConnectionInformation(m, idxs[k]).raised # NoValue } IN
    IF bad = {} THEN Len(idxs) + 1
    ELSE CHOOSE k \in bad : \A j \in bad : k <= j

\* the connections a loop over idxs gets that are not None, in order; the
\* loop ends at the first call that raises
LoopConnections(m, idxs) ==
    LET done == SubSeq(idxs, 1, FirstRaise(m, idxs) - 1)
        all  == [k \in 1 .. Len(done) |-> readConnectionInformation(m, done[k])]
        Present(c) == ~c.none
    IN SelectSeq(all, Present)

ConnOutcome(op, conn_number, nocheck, passed, reads, found, result, raised, logged, sent) ==
    [op |-> op, conn_number |-> conn_number, nocheck |-> nocheck, passed |-> passed,
     reads |-> reads, found |-> found, result |-> result, raised |-> raised,
     logged |-> logged, sent |-> sent]

\* the outcome of a loop over the whole array, up to the first raise
LoopOutcome(op, m, idxs, found, result, logged, sent) ==
    LET first == FirstRaise(m, idxs) IN
    IF first <= Len(idxs)
    THEN ConnOutcome(op, None, FALSE, SubSeq(idxs, 1, first), SubSeq(idxs, 1, first - 1),
                     <<>>, NoValue, "IndexError", {}, None)
    ELSE ConnOutcome(op, None, FALSE, idxs, idxs, found, result, NoValue, logged, sent)

\* the connection numbers of a sequence of connections
Numbers(conns) == [k \in 1 .. Len(conns) |-> conns[k].connection_number]

\* CmdInfo.infoConnections (lines 1073-1093): a slot that gives None is
\* skipped, the others are listed
infoConnections ==
    /\ connLast' = LoopOutcome("info", mem, LoopIndexes,
                               Numbers(LoopConnections(mem, LoopIndexes)),
                               NoValue, {}, None)
    /\ mem' = mem

\* lines 1054-1061: the data is decoded and the packet sent; sendok is what
\* sendLmpPacket returns
SendResult(hexok, sendok) ==
    IF ~hexok THEN "False" ELSE IF sendok THEN "True" ELSE "False"

\* CmdSendLmp.work (lines 1011-1061).  args: "noargs" when the command line
\* does not parse; conn_number is None without -n; hexok is whether the data
\* is a hex string.
CmdSendLmp(args, conn_number, nocheck, hexok, sendok) ==
    /\ mem' = mem
    /\ IF args = "noargs"
       THEN connLast' = ConnOutcome("noargs", conn_number, nocheck, <<>>, <<>>, <<>>,
                                    "True", NoValue, {}, None)
       ELSE IF conn_number = None
       THEN LET active == LoopConnections(mem, LoopIndexes)
                \* line 1024: not None and the remote address not zero
                found == SelectSeq(active, LAMBDA c : c.remote_address # 0)
            IN connLast' =
                 [LoopOutcome("sendlmp", mem, LoopIndexes, Numbers(found),
                    IF Len(found) # 1 THEN "False" ELSE SendResult(hexok, sendok),
                    IF Len(found) = 0 THEN {"no active connection"}
                    ELSE IF Len(found) > 1 THEN {"multiple active connections"}
                    ELSE IF ~hexok THEN {"no hexstring"} ELSE {},
                    IF Len(found) = 1 /\ hexok THEN found[Len(found)].connection_number
                    ELSE None)
                  EXCEPT !.nocheck = nocheck]
       ELSE IF nocheck
       THEN connLast' = ConnOutcome("sendlmp", conn_number, TRUE, <<>>, <<>>, <<>>,
                                    SendResult(hexok, sendok), NoValue,
                                    IF ~hexok THEN {"no hexstring"} ELSE {},
                                    IF hexok THEN conn_number ELSE None)
       ELSE LET connection == readConnectionInformation(mem, conn_number) IN
            IF connection.raised # NoValue
            THEN connLast' = ConnOutcome("sendlmp", conn_number, FALSE, <<conn_number>>,
                                         <<>>, <<>>, NoValue, connection.raised, {}, None)
            ELSE IF connection.none
            THEN connLast' = ConnOutcome("sendlmp", conn_number, FALSE, <<conn_number>>,
                                         <<conn_number>>, <<>>, "False", NoValue,
                                         {"entry is empty"}, None)
            ELSE connLast' = ConnOutcome("sendlmp", conn_number, FALSE, <<conn_number>>,
                                         <<conn_number>>, <<connection.connection_number>>,
                                         SendResult(hexok, sendok), NoValue,
                                         IF ~hexok THEN {"no hexstring"} ELSE {},
                                         IF hexok THEN conn_number ELSE None)

\* The controller changes a record of its connection array: a connection is
\* set up (number and remote address), torn down with the number left in
\* place (remote address zero), or the record is cleared.
LinkChange(index, connection_number, remote_address) ==
    /\ mem' = [mem EXCEPT ![ConnectionAddress(index)] = connection_number,
                          ![ConnectionAddress(index) + 1] = remote_address]
    /\ connLast' = ConnOutcome("link", None, FALSE, <<>>, <<>>, <<>>, NoValue, NoValue,
                               {}, None)

InitConn ==
    /\ SECTIONS = WideRamSections
    /\ PATCHRAM_NUMBER_OF_SLOTS = PatchTableSlots
    /\ secIn = IdleSecIn
    /\ secOut = NoValue
    /\ mem = InitMem
    /\ writeLast = IdleWriteLast
    /\ patchram = EmptyPatchram
    /\ patchLast = IdlePatchLast
    /\ hook = IdleHook
    /\ monitor = NoMonitors
    /\ monLast = IdleMonLast
    /\ memLast = IdleMemLast
    /\ connLast = IdleConnLast
    /\ channel = IdleChannel
    /\ image = NoImage
    /\ teleLast = IdleTeleLast
    /\ threads = IdleThreads
    /\ execLast = IdleExecLast

\* the connection numbers given with -n: in the array, and just outside it
ConnNumbers == 0 .. CONNECTION_ARRAY_SIZE + 1

DoInfoConnections == infoConnections

DoSendLmpSearch ==
    \E hexok \in BOOLEAN, sendok \in BOOLEAN :
        CmdSendLmp("ok", None, FALSE, hexok, sendok)

DoSendLmpNumber ==
    \E conn_number \in ConnNumbers, nocheck \in BOOLEAN, hexok \in BOOLEAN,
       sendok \in BOOLEAN :
        CmdSendLmp("ok", conn_number, nocheck, hexok, sendok)

DoSendLmpBadArgs == CmdSendLmp("noargs", None, FALSE, TRUE, TRUE)

DoLinkChange ==
    \E index \in 1 .. CONNECTION_ARRAY_SIZE :
        \E record \in {<<0, 0>>, <<index, 0>>, <<index, 1>>} :
            LinkChange(index, record[1], record[2])

NextConn ==
    \/ DoInfoConnections
          /\ UNCHANGED <<fwVars, sectionVars, writeLast, patchVars, hookVars, monVars, memVars, lateVars>>
    \/ DoSendLmpSearch
          /\ UNCHANGED <<fwVars, sectionVars, writeLast, patchVars, hookVars, monVars, memVars, lateVars>>
    \/ DoSendLmpNumber
          /\ UNCHANGED <<fwVars, sectionVars, writeLast, patchVars, hookVars, monVars, memVars, lateVars>>
    \/ DoSendLmpBadArgs
          /\ UNCHANGED <<fwVars, sectionVars, writeLast, patchVars, hookVars, monVars, memVars, lateVars>>
    \/ DoLinkChange
          /\ UNCHANGED <<fwVars, sectionVars, writeLast, patchVars, hookVars, monVars, memVars, lateVars>>

(***************************************************************************)
(* The memory image: Cmd.initMemoryImage, Cmd.refreshMemoryImage and       *)
(* Cmd.getMemoryImage (lines 119-155).                                     *)
(***************************************************************************)
\* A firmware map with a section that is neither ROM nor RAM (memory-mapped
\* registers) and a gap: ROM [0, 4), RAM [4, 8), registers [10, 12).
RegisterSections ==
    << Section(0, 4, TRUE, FALSE), Section(4, 8, FALSE, TRUE),
       Section(10, 12, FALSE, FALSE) >>

ImageMaps == {ScenarioSections, RegisterSections}

\* the section of the map that holds the address, 0 when none does
SectionOf(sections, a) ==
    IF \E i \in 1 .. Len(sections) :
          sections[i].start_addr <= a /\ a < sections[i].end_addr
    THEN CHOOSE i \in 1 .. Len(sections) :
          sections[i].start_addr <= a /\ a < sections[i].end_addr
    ELSE 0

\* the length of an image of the map: up to the end of the last section
ImageLen(sections) ==
    CHOOSE n \in 0 .. 14 :
        /\ \A i \in 1 .. Len(sections) : sections[i].end_addr <= n
        /\ \E i \in 1 .. Len(sections) : sections[i].end_addr = n

\* line 130: fit(dumped_sections, filler='\x00'): every dump at its start
\* address, zero bytes in the gaps; the byte of address a is image[a + 1]
Fit(sections, m) ==
    [i \in 1 .. ImageLen(sections) |->
        LET k == SectionOf(sections, i - 1) IN
        IF k = 0 THEN 0
        ELSE readMem(m, sections[k].start_addr, SectionSize(sections[k]))
                 [i - sections[k].start_addr]]

\* line 146: memory_image[0:start_addr] + sectiondump + memory_image[end_addr:]
Splice(img, section, sectiondump) ==
    SubSeq(img, 1, section.start_addr) \o sectiondump
        \o SubSeq(img, section.end_addr + 1, Len(img))

\* mutant: every section is read again
RereadAll(section) == TRUE

\* line 144: if not section.is_rom
Reread(section) == ~section.is_rom

\* lines 143-147: the loop of refreshMemoryImage from section i on
RECURSIVE RefreshLoop(_, _, _, _)
RefreshLoop(img, sections, i, m) ==
    IF i > Len(sections) THEN img
    ELSE IF Reread(sections[i])
    THEN RefreshLoop(Splice(img, sections[i],
                            readMem(m, sections[i].start_addr, SectionSize(sections[i]))),
                     sections, i + 1, m)
    ELSE RefreshLoop(img, sections, i + 1, m)

\* the sections the loop reads, in order
RefreshReads(sections) ==
    SelectSeq([i \in 1 .. Len(sections) |-> i], LAMBDA i : Reread(sections[i]))

\* lines 139-148: refreshMemoryImage
refreshMemoryImage(im, sections, m) ==
    [im EXCEPT !.memory_image = RefreshLoop(@, sections, 1, m),
               !.reads = @ \o RefreshReads(sections)]

\* lines 119-137: initMemoryImage: without a template file every section is
\* read and the image written to the file; with one the image is the file's
\* content, refreshed
initMemoryImage(im, sections, m) ==
    IF ~im.template
    THEN [im EXCEPT !.cached = TRUE, !.memory_image = Fit(sections, m),
                    !.reads = [i \in 1 .. Len(sections) |-> i],
                    !.template = TRUE, !.template_data = Fit(sections, m)]
    ELSE refreshMemoryImage([im EXCEPT !.cached = TRUE,
                                       !.memory_image = im.template_data],
                            sections, m)

\* lines 150-155: getMemoryImage(refresh)
getMemoryImage(refresh) ==
    LET im == [image EXCEPT !.op = "getMemoryImage", !.refresh = refresh,
                            !.was_cached = image.cached, !.reads = <<>>] IN
    /\ image' = IF ~im.cached THEN initMemoryImage(im, SECTIONS, mem)
                ELSE IF refresh THEN refreshMemoryImage(im, SECTIONS, mem)
                ELSE im
    /\ mem' = mem

\* The controller changes a byte outside ROM while it runs.
MemoryChanges(a, b) ==
    /\ SectionOf(SECTIONS, a) # 0
    /\ ~SECTIONS[SectionOf(SECTIONS, a)].is_rom
    /\ mem' = [mem EXCEPT ![a] = b]
    /\ image' = [image EXCEPT !.op = "memory"]

\* the memory of the controller at the start: ROM content is not zero
ImageMem == [a \in MemAddrs |-> IF a < 4 THEN 1 ELSE 0]

\* the template file an earlier session left: the ROM as it is, the rest as
\* it was then
TemplateOf(sections, m) ==
    [i \in 1 .. ImageLen(sections) |->
        LET k == SectionOf(sections, i - 1) IN
        IF k = 0 THEN 0 ELSE IF sections[k].is_rom THEN m[i - 1] ELSE 3]

InitImage ==
    /\ SECTIONS \in ImageMaps
    /\ PATCHRAM_NUMBER_OF_SLOTS = PatchTableSlots
    /\ secIn = IdleSecIn
    /\ secOut = NoValue
    /\ mem = ImageMem
    /\ writeLast = IdleWriteLast
    /\ patchram = EmptyPatchram
    /\ patchLast = IdlePatchLast
    /\ hook = IdleHook
    /\ monitor = NoMonitors
    /\ monLast = IdleMonLast
    /\ memLast = IdleMemLast
    /\ connLast = IdleConnLast
    /\ channel = IdleChannel
    /\ image \in { NoImage,
                   [NoImage EXCEPT !.template = TRUE,
                                   !.template_data = TemplateOf(SECTIONS, ImageMem)] }
    /\ teleLast = IdleTeleLast
    /\ threads = IdleThreads
    /\ execLast = IdleExecLast

DoGetMemoryImage == \E refresh \in BOOLEAN : getMemoryImage(refresh)

\* bytes of the sections and of the gap; only one outside ROM changes
DoMemoryChanges == \E a \in {0, 5, 9, 11}, b \in {0, 2} : MemoryChanges(a, b)

NextImage ==
    \/ DoGetMemoryImage
          /\ UNCHANGED <<fwVars, sectionVars, writeLast, patchVars, hookVars, monVars,
                          memVars, connVars, chanVars, teleVars, threadVars, execVars>>
    \/ DoMemoryChanges
          /\ UNCHANGED <<fwVars, sectionVars, writeLast, patchVars, hookVars, monVars,
                          memVars, connVars, chanVars, teleVars, threadVars, execVars>>

(***************************************************************************)
(* CmdTelescope (lines 617-650): the dump of a region with the pointers of *)
(* every word followed.  A word (4 bytes) is scaled to one byte, the 0x20  *)
(* bytes read at a pointer target to 2.                                    *)
(***************************************************************************)
\* line 621 and 622: the length of the range at a pointer target, scaled
TargetLen == 2
\* line 646: the depth of the call for a displayed word
TelescopeDepth == 4

\* mutant: the target is not looked up in the sections
FollowsUnchecked(val, depth) == depth > 0

\* line 621: depth > 0 and self.isAddressInSections(val, 0x20)
Follows(val, depth) == depth > 0 /\ isAddressInSections(val, TargetLen, "")

\* lines 617-633: telescope(data, depth).  chain is the list it returns
\* without the text at its end, reads the addresses it read.
RECURSIVE telescope(_, _, _)
telescope(m, data, depth) ==
    LET val == data[1] IN
    IF val = 0 THEN [chain |-> <<val>>, reads |-> <<>>]
    ELSE IF Follows(val, depth)
    THEN LET newdata == readMem(m, val, TargetLen)
             recursive_result == telescope(m, newdata, depth - 1)
         IN [chain |-> <<val>> \o recursive_result.chain,
             reads |-> <<val>> \o recursive_result.reads]
    ELSE [chain |-> <<val>>, reads |-> <<>>]

TeleOutcome(address, length, prompted, result, chains) ==
    [op |-> "telescope", address |-> address, length |-> length,
     prompted |-> prompted, result |-> result, chains |-> chains]

\* CmdTelescope.work (lines 635-657).  args: "noargs" when the command line
\* does not parse; answer is the operator's answer to the warning; readok
\* whether the read of the region succeeds.
CmdTelescope(args, address, length, answer, readok) ==
    LET inside == isAddressInSections(address, length, "") IN
    /\ mem' = mem
    /\ IF args = "noargs"
       THEN teleLast' = TeleOutcome(address, length, FALSE, "True", <<>>)
       ELSE IF ~inside /\ ~answer
       THEN teleLast' = TeleOutcome(address, length, TRUE, "False", <<>>)
       ELSE IF ~readok
       THEN teleLast' = TeleOutcome(address, length, ~inside, "False", <<>>)
       ELSE LET dump == readMem(mem, address, length + 1) IN
            teleLast' = TeleOutcome(address, length, ~inside, "True",
                           [index \in 1 .. Len(dump) - 1 |->
                               telescope(mem, SubSeq(dump, index, Len(dump)),
                                         TelescopeDepth)])

\* the values a byte of RAM holds: zero, pointers into ROM, into RAM (to
\* itself, forward and backward, so that chains end, run on and cycle), to
\* the last byte of RAM and to the end of RAM
PointerValues == {0, 3, 8, 9, 11, 12}

\* the memory the command finds: ROM holds a pointer into RAM at 3
TelescopeMems ==
    { [a \in MemAddrs |-> IF a \in DOMAIN f THEN f[a] ELSE IF a = 3 THEN 9 ELSE 0] :
        f \in [8 .. 11 -> PointerValues] }

InitTelescope ==
    /\ SECTIONS = ScenarioSections
    /\ PATCHRAM_NUMBER_OF_SLOTS = PatchTableSlots
    /\ secIn = IdleSecIn
    /\ secOut = NoValue
    /\ mem \in TelescopeMems
    /\ writeLast = IdleWriteLast
    /\ patchram = EmptyPatchram
    /\ patchLast = IdlePatchLast
    /\ hook = IdleHook
    /\ monitor = NoMonitors
    /\ monLast = IdleMonLast
    /\ memLast = IdleMemLast
    /\ connLast = IdleConnLast
    /\ channel = IdleChannel
    /\ image = NoImage
    /\ teleLast = IdleTeleLast
    /\ threads = IdleThreads
    /\ execLast = IdleExecLast

\* the regions: in ROM, across the end of ROM, in RAM, up to the end of RAM
\* and past it
TelescopeAddrs == {3, 7, 8, 10, 11}

DoTelescope ==
    \E address \in TelescopeAddrs, length \in 1 .. 2 :
        \E answer \in Answers(isAddressInSections(address, length, "")),
           readok \in BOOLEAN :
            CmdTelescope("ok", address, length, answer, readok)

DoTelescopeBadArgs == CmdTelescope("noargs", 0, 0, FALSE, TRUE)

NextTelescope ==
    \/ DoTelescope
          /\ UNCHANGED <<fwVars, sectionVars, writeLast, patchVars, hookVars, monVars,
                          memVars, connVars, chanVars, imageVars, threadVars, execVars>>
    \/ DoTelescopeBadArgs
          /\ UNCHANGED <<fwVars, sectionVars, writeLast, patchVars, hookVars, monVars,
                          memVars, connVars, chanVars, imageVars, threadVars, execVars>>

(***************************************************************************)
(* CmdExec.work (lines 825-881): assemble, write to RAM, launch.           *)
(***************************************************************************)
ExecCall(op, address, ok) == [op |-> op, address |-> address, ok |-> ok]

ExecOutcome(stage, address, data, calls, result, raised) ==
    [op |-> "exec", stage |-> stage, address |-> address, data |-> data,
     calls |-> calls, result |-> result, raised |-> raised]

\* mutant: the result of writeMem is not looked at
ExecLaunchesAnyway(written) == TRUE

\* lines 873-875: return False when writeMem fails
ExecLaunches(written) == written

\* CmdExec.work.  args: "noargs" when the command line does not parse; asmok
\* is whether the assembler accepts the code, assembled the machine code;
\* dry the --dry flag; acked the write requests the controller acknowledges;
\* launchok what launchRam returns.  The warning for an address outside RAM
\* (line 868) formats len(args.data), an attribute the parser does not
\* define: the command ends there with AttributeError.
CmdExec(args, addr, asmok, assembled, dry, acked, launchok) ==
    CASE args = "noargs" ->
           /\ execLast' = ExecOutcome("noargs", addr, <<>>, <<>>, "True", NoValue)
           /\ mem' = mem
      [] ~asmok ->
           /\ execLast' = ExecOutcome("asm failed", addr, <<>>, <<>>, "False", NoValue)
           /\ mem' = mem
      [] Len(assembled) = 0 ->
           /\ execLast' = ExecOutcome("no code", addr, <<>>, <<>>, "False", NoValue)
           /\ mem' = mem
      [] dry ->
           /\ execLast' = ExecOutcome("dry", addr, assembled, <<>>, "True", NoValue)
           /\ mem' = mem
      [] ~isAddressInSections(addr, Len(assembled), "RAM") ->
           /\ execLast' = ExecOutcome("not in RAM", addr, assembled, <<>>, NoValue,
                                      "AttributeError")
           /\ mem' = mem
      [] OTHER ->
           LET written == WriteMemOk(assembled, acked) IN
           /\ mem' = writeMem(mem, addr, assembled, acked)
           /\ execLast' =
                IF ~ExecLaunches(written)
                THEN ExecOutcome("write failed", addr, assembled,
                                 <<ExecCall("writeMem", addr, written)>>, "False", NoValue)
                ELSE ExecOutcome("launched", addr, assembled,
                                 <<ExecCall("writeMem", addr, written),
                                   ExecCall("launchRam", addr, launchok)>>,
                                 IF launchok THEN "True" ELSE "False", NoValue)

InitExec ==
    /\ SECTIONS = ScenarioSections
    /\ PATCHRAM_NUMBER_OF_SLOTS = PatchTableSlots
    /\ secIn = IdleSecIn
    /\ secOut = NoValue
    /\ mem = InitMem
    /\ writeLast = IdleWriteLast
    /\ patchram = EmptyPatchram
    /\ patchLast = IdlePatchLast
    /\ hook = IdleHook
    /\ monitor = NoMonitors
    /\ monLast = IdleMonLast
    /\ memLast = IdleMemLast
    /\ connLast = IdleConnLast
    /\ channel = IdleChannel
    /\ image = NoImage
    /\ teleLast = IdleTeleLast
    /\ threads = IdleThreads
    /\ execLast = IdleExecLast

\* the command stops before the write: the inputs it does not read are held
\* at one value
DoExecNoWrite ==
    \E addr \in WriteAddrs :
        \/ CmdExec("noargs", addr, TRUE, <<>>, FALSE, 0, TRUE)
        \/ CmdExec("ok", addr, FALSE, <<>>, FALSE, 0, TRUE)
        \/ \E assembled \in WriteData, dry \in BOOLEAN :
              /\ Len(assembled) = 0 \/ dry
                   \/ ~isAddressInSections(addr, Len(assembled), "RAM")
              /\ CmdExec("ok", addr, TRUE, assembled, dry, 0, TRUE)

DoExecWrite ==
    \E addr \in WriteAddrs, assembled \in WriteData, launchok \in BOOLEAN :
        /\ Len(assembled) > 0
        /\ isAddressInSections(addr, Len(assembled), "RAM")
        /\ \E acked \in 0 .. NumChunks(Len(assembled)) :
              CmdExec("ok", addr, TRUE, assembled, FALSE, acked, launchok)

NextExec ==
    \/ DoExecNoWrite
          /\ UNCHANGED <<fwVars, sectionVars, writeLast, patchVars, hookVars, monVars,
                          memVars, connVars, chanVars, imageVars, teleVars, threadVars>>
    \/ DoExecWrite
          /\ UNCHANGED <<fwVars, sectionVars, writeLast, patchVars, hookVars, monVars,
                          memVars, connVars, chanVars, imageVars, teleVars, threadVars>>

(***************************************************************************)
(* The HCI monitor controller statement by statement (lines 267-387): the  *)
(* command line, the timer thread and the event path run its methods at    *)
(* the same time and share its fields without a lock.                      *)
(***************************************************************************)
At(t, label) == threads.pc[t] = label

\* lines 309-312: the test of self.running, then self.running = True
StartBegin ==
    /\ At("cli", "idle")
    /\ threads' = IF threads.running THEN threads
                  ELSE [threads EXCEPT !.running = TRUE, !.pc["cli"] = "start_spawn"]

\* lines 313-314 with _spawnWireshark (267-294): the viewer is launched when
\* none is attached, the header written and the timer started
StartSpawn ==
    /\ At("cli", "start_spawn")
    /\ threads' = IF threads.wireshark_process = None
                  THEN [threads EXCEPT !.wireshark_process = PopenObject,
                                       !.status = None,
                                       !.poll_timer = TimerObject,
                                       !.timer_pending = TRUE,
                                       !.pc["cli"] = "start_register"]
                  ELSE [threads EXCEPT !.pc["cli"] = "start_register"]

\* lines 316-319: registerHciCallback, return True
StartRegister ==
    /\ At("cli", "start_register")
    /\ threads' = [threads EXCEPT !.registered = TRUE, !.pc["cli"] = "idle"]

\* lines 322-326: the test of self.running, unregisterHciCallback
StopBegin ==
    /\ At("cli", "idle")
    /\ threads' = IF ~threads.running THEN threads
                  ELSE [threads EXCEPT !.registered = FALSE, !.pc["cli"] = "stop_mark"]

\* lines 327-328: self.running = False, return True
StopMark ==
    /\ At("cli", "stop_mark")
    /\ threads' = [threads EXCEPT !.running = FALSE, !.pc["cli"] = "idle"]

\* lines 353-354: killMonitor on thread t begins: a running monitor is stopped
KillStop(t) ==
    [threads EXCEPT !.registered = IF threads.running THEN FALSE ELSE @,
                    !.running = FALSE,
                    !.pc[t] = "kill_timer"]

KillBegin ==
    /\ At("cli", "idle")
    /\ threads' = KillStop("cli")

\* lines 355-357: the timer is cancelled and forgotten
KillTimer(t) ==
    /\ At(t, "kill_timer")
    /\ threads' = [threads EXCEPT
                     !.timer_pending = IF threads.poll_timer # None THEN FALSE ELSE @,
                     !.poll_timer = None,
                     !.pc[t] = "kill_proc"]

\* lines 358-364: the viewer is terminated and waited for
KillProc(t) ==
    /\ At(t, "kill_proc")
    /\ threads' = IF threads.wireshark_process = None
                  THEN [threads EXCEPT !.pc[t] = "idle"]
                  ELSE [threads EXCEPT !.status = IF @ = None THEN Terminated ELSE @,
                                       !.pc[t] = "kill_clear"]

\* line 365: self.wireshark_process = None
KillClear(t) ==
    /\ At(t, "kill_clear")
    /\ threads' = [threads EXCEPT !.wireshark_process = None, !.pc[t] = "idle"]

\* lines 296-298: the timer fires and _pollTimer tests the fields and the
\* exit status of the viewer
PollFire ==
    /\ threads.timer_pending
    /\ At("timer", "idle")
    /\ threads' =
         [threads EXCEPT
            !.timer_pending = FALSE,
            !.pc["timer"] =
               IF threads.running /\ threads.wireshark_process # None
               THEN IF ViewerEnded(threads.status) THEN "poll_stop" ELSE "poll_resched"
               ELSE "idle"]

\* line 301: self.stopMonitor()
PollStop ==
    /\ At("timer", "poll_stop")
    /\ threads' = [threads EXCEPT !.registered = IF threads.running THEN FALSE ELSE @,
                                  !.running = FALSE,
                                  !.pc["timer"] = "poll_clear"]

\* line 302: self.wireshark_process = None
PollClear ==
    /\ At("timer", "poll_clear")
    /\ threads' = [threads EXCEPT !.wireshark_process = None, !.pc["timer"] = "idle"]

\* lines 304-306: a new timer is made and started
PollResched ==
    /\ At("timer", "poll_resched")
    /\ threads' = [threads EXCEPT !.poll_timer = TimerObject, !.timer_pending = TRUE,
                                  !.pc["timer"] = "idle"]

\* The event path takes the callback from its list and calls it.
CbDispatch ==
    /\ threads.registered
    /\ At("cb", "idle")
    /\ threads' = [threads EXCEPT !.pc["cb"] = "cb_write", !.raised = NoValue]

\* line 382: self.wireshark_process.stdin.write(...): AttributeError when
\* the field is None, IOError (caught at 385-387) when the viewer has exited
CbWrite ==
    /\ At("cb", "cb_write")
    /\ threads' =
         IF threads.wireshark_process = None
         THEN [threads EXCEPT !.pc["cb"] = "idle", !.raised = "AttributeError"]
         ELSE IF threads.status # None
         THEN KillStop("cb")
         ELSE [threads EXCEPT !.pc["cb"] = "cb_flush"]

\* line 383: self.wireshark_process.stdin.flush()
CbFlush ==
    /\ At("cb", "cb_flush")
    /\ threads' =
         IF threads.wireshark_process = None
         THEN [threads EXCEPT !.pc["cb"] = "idle", !.raised = "AttributeError"]
         ELSE IF threads.status # None
         THEN KillStop("cb")
         ELSE [threads EXCEPT !.pc["cb"] = "idle"]

\* The viewer process exits by itself.
ViewerExits(status) ==
    /\ threads.wireshark_process # None
    /\ threads.status = None
    /\ threads' = [threads EXCEPT !.status = status]

InitThreads ==
    /\ SECTIONS = ScenarioSections
    /\ PATCHRAM_NUMBER_OF_SLOTS = PatchTableSlots
    /\ secIn = IdleSecIn
    /\ secOut = NoValue
    /\ mem = InitMem
    /\ writeLast = IdleWriteLast
    /\ patchram = EmptyPatchram
    /\ patchLast = IdlePatchLast
    /\ hook = IdleHook
    /\ monitor = NoMonitors
    /\ monLast = IdleMonLast
    /\ memLast = IdleMemLast
    /\ connLast = IdleConnLast
    /\ channel = IdleChannel
    /\ image = NoImage
    /\ teleLast = IdleTeleLast
    /\ threads = IdleThreads
    /\ execLast = IdleExecLast

NextThreads ==
    \/ StartBegin /\ UNCHANGED <<fwVars, sectionVars, writeVars, patchVars, hookVars, monVars, memVars, connVars, chanVars, imageVars, teleVars, execVars>>
    \/ StartSpawn /\ UNCHANGED <<fwVars, sectionVars, writeVars, patchVars, hookVars, monVars, memVars, connVars, chanVars, imageVars, teleVars, execVars>>
    \/ StartRegister /\ UNCHANGED <<fwVars, sectionVars, writeVars, patchVars, hookVars, monVars, memVars, connVars, chanVars, imageVars, teleVars, execVars>>
    \/ StopBegin /\ UNCHANGED <<fwVars, sectionVars, writeVars, patchVars, hookVars, monVars, memVars, connVars, chanVars, imageVars, teleVars, execVars>>
    \/ StopMark /\ UNCHANGED <<fwVars, sectionVars, writeVars, patchVars, hookVars, monVars, memVars, connVars, chanVars, imageVars, teleVars, execVars>>
    \/ KillBegin /\ UNCHANGED <<fwVars, sectionVars, writeVars, patchVars, hookVars, monVars, memVars, connVars, chanVars, imageVars, teleVars, execVars>>
    \/ (\E t \in {"cli", "cb"} : KillTimer(t)) /\ UNCHANGED <<fwVars, sectionVars, writeVars, patchVars, hookVars, monVars, memVars, connVars, chanVars, imageVars, teleVars, execVars>>
    \/ (\E t \in {"cli", "cb"} : KillProc(t)) /\ UNCHANGED <<fwVars, sectionVars, writeVars, patchVars, hookVars, monVars, memVars, connVars, chanVars, imageVars, teleVars, execVars>>
    \/ (\E t \in {"cli", "cb"} : KillClear(t)) /\ UNCHANGED <<fwVars, sectionVars, writeVars, patchVars, hookVars, monVars, memVars, connVars, chanVars, imageVars, teleVars, execVars>>
    \/ PollFire /\ UNCHANGED <<fwVars, sectionVars, writeVars, patchVars, hookVars, monVars, memVars, connVars, chanVars, imageVars, teleVars, execVars>>
    \/ PollStop /\ UNCHANGED <<fwVars, sectionVars, writeVars, patchVars, hookVars, monVars, memVars, connVars, chanVars, imageVars, teleVars, execVars>>
    \/ PollClear /\ UNCHANGED <<fwVars, sectionVars, writeVars, patchVars, hookVars, monVars, memVars, connVars, chanVars, imageVars, teleVars, execVars>>
    \/ PollResched /\ UNCHANGED <<fwVars, sectionVars, writeVars, patchVars, hookVars, monVars, memVars, connVars, chanVars, imageVars, teleVars, execVars>>
    \/ CbDispatch /\ UNCHANGED <<fwVars, sectionVars, writeVars, patchVars, hookVars, monVars, memVars, connVars, chanVars, imageVars, teleVars, execVars>>
    \/ CbWrite /\ UNCHANGED <<fwVars, sectionVars, writeVars, patchVars, hookVars, monVars, memVars, connVars, chanVars, imageVars, teleVars, execVars>>
    \/ CbFlush /\ UNCHANGED <<fwVars, sectionVars, writeVars, patchVars, hookVars, monVars, memVars, connVars, chanVars, imageVars, teleVars, execVars>>
    \/ (\E status \in 0 .. 1 : ViewerExits(status)) /\ UNCHANGED <<fwVars, sectionVars, writeVars, patchVars, hookVars, monVars, memVars, connVars, chanVars, imageVars, teleVars, execVars>>

(***************************************************************************)
(* sendhcicmd (cmds.py 894-912) on the command channel of section 4.1,     *)
(* next to the capture callback (cmds.py 371-387) that the event path      *)
(* calls for every packet while a monitor is started.                      *)
(***************************************************************************)
MaxCmdCode == 65535

\* send of section 4.1: the request goes out when nothing is in flight, the
\* caller blocks behind the exchange in flight otherwise.
sendHciCommand(ch, c) ==
    IF ch.outstanding = None
    THEN [ch EXCEPT !.outstanding = c, !.work[c] = "in flight",
                    !.response[c] = NoValue, !.answered[c] = None,
                    !.returned[c] = NoValue]
    ELSE [ch EXCEPT !.waiting = @ \cup {c}, !.work[c] = "blocked",
                    !.response[c] = NoValue, !.answered[c] = None,
                    !.returned[c] = NoValue]

\* CmdSendHciCmd.work up to the call of sendHciCommand (lines 895-910)
CmdSendHciCmd(ch, c, args, cmdcode) ==
    IF ~args THEN [ch EXCEPT !.returned[c] = "True"]
    ELSE IF cmdcode > MaxCmdCode THEN [ch EXCEPT !.returned[c] = "False"]
    ELSE sendHciCommand(ch, c)

\* The exchange in flight ends with a response or a timeout: its caller gets
\* the outcome, work returns True whatever it is (lines 910-912), and the
\* request of a blocked caller goes out next.
NextSender(ch) == IF ch.waiting = {} THEN None ELSE CHOOSE c \in ch.waiting : \A d \in ch.waiting : c <= d

Complete(ch, outcome) ==
    [ch EXCEPT !.response[ch.outstanding] = outcome,
               !.answered[ch.outstanding] = IF outcome = "response" THEN ch.outstanding ELSE None,
               !.work[ch.outstanding] = "idle",
               !.returned[ch.outstanding] = "True",
               !.outstanding = NextSender(ch),
               !.waiting = @ \ {NextSender(ch)},
               !.work[NextSender(ch)] = "in flight"]

CompleteLast(ch, outcome) ==
    [ch EXCEPT !.response[ch.outstanding] = outcome,
               !.answered[ch.outstanding] = IF outcome = "response" THEN ch.outstanding ELSE None,
               !.work[ch.outstanding] = "idle",
               !.returned[ch.outstanding] = "True",
               !.outstanding = None]

\* hciCallback (lines 371-387): the record is written to the input pipe of
\* the viewer and flushed (382-383); the write returns when the pipe takes
\* the record and waits for the viewer to read when the pipe is full.
PipeTakes(pipe) == pipe < PipeCapacity

hciCallbackWrite(ch) ==
    IF PipeTakes(ch.pipe)
    THEN [ch EXCEPT !.pipe = @ + 1, !.cb = "idle"]
    ELSE [ch EXCEPT !.cb = "blocked"]

InitChannel ==
    /\ SECTIONS = ScenarioSections
    /\ PATCHRAM_NUMBER_OF_SLOTS = PatchTableSlots
    /\ secIn = IdleSecIn
    /\ secOut = NoValue
    /\ mem = InitMem
    /\ writeLast = IdleWriteLast
    /\ patchram = EmptyPatchram
    /\ patchLast = IdlePatchLast
    /\ hook = IdleHook
    /\ monitor = NoMonitors
    /\ monLast = IdleMonLast
    /\ memLast = IdleMemLast
    /\ connLast = IdleConnLast
    /\ channel = IdleChannel
    /\ image = NoImage
    /\ teleLast = IdleTeleLast
    /\ threads = IdleThreads
    /\ execLast = IdleExecLast

DoSendHciCmd(c, args, cmdcode) ==
    /\ channel.work[c] = "idle"
    /\ channel' = CmdSendHciCmd(channel, c, args, cmdcode)

DoComplete(outcome) ==
    /\ channel.outstanding # None
    /\ channel' = IF channel.waiting = {} THEN CompleteLast(channel, outcome)
                  ELSE Complete(channel, outcome)

\* monitor hci start registers the callback (line 317)
DoRegister ==
    /\ ~channel.registered
    /\ channel' = [channel EXCEPT !.registered = TRUE]

\* a packet is captured: the event path calls the registered callback
DoCaptureCallback ==
    /\ channel.registered
    /\ channel.cb = "idle"
    /\ channel' = hciCallbackWrite(channel)

\* the viewer reads a record from its input; a write that waited goes through
DoViewerReads ==
    /\ channel.pipe > 0
    /\ channel' = IF channel.cb = "blocked"
                  THEN [channel EXCEPT !.cb = "idle"]
                  ELSE [channel EXCEPT !.pipe = @ - 1]

NextChannel ==
    \/ (\E c \in Callers, args \in BOOLEAN, cmdcode \in {3075, MaxCmdCode, MaxCmdCode + 1} : DoSendHciCmd(c, args, cmdcode)) /\ UNCHANGED <<fwVars, sectionVars, writeVars, patchVars, hookVars, monVars, memVars, connVars, imageVars, teleVars, threadVars, execVars>>
    \/ (\E outcome \in {"response", "Timeout"} : DoComplete(outcome)) /\ UNCHANGED <<fwVars, sectionVars, writeVars, patchVars, hookVars, monVars, memVars, connVars, imageVars, teleVars, threadVars, execVars>>
    \/ DoRegister /\ UNCHANGED <<fwVars, sectionVars, writeVars, patchVars, hookVars, monVars, memVars, connVars, imageVars, teleVars, threadVars, execVars>>
    \/ DoCaptureCallback /\ UNCHANGED <<fwVars, sectionVars, writeVars, patchVars, hookVars, monVars, memVars, connVars, imageVars, teleVars, threadVars, execVars>>
    \/ DoViewerReads /\ UNCHANGED <<fwVars, sectionVars, writeVars, patchVars, hookVars, monVars, memVars, connVars, imageVars, teleVars, threadVars, execVars>>

(***************************************************************************)
(* The specifications.  Each runs one part of the program; the variables   *)
(* of the other parts keep their initial values.                           *)
(***************************************************************************)
SpecSections == InitSections /\ [][NextSections]_vars

SpecWrite == InitWrite /\ [][NextWrite]_vars

SpecPatch == InitPatch /\ [][NextPatch]_vars

SpecHook == InitHook /\ [][NextHook]_vars

SpecMonitor == InitMonitor /\ [][NextMonitor]_vars

SpecTransfer == InitTransfer /\ [][NextTransfer]_vars

SpecConn == InitConn /\ [][NextConn]_vars

SpecImage == InitImage /\ [][NextImage]_vars

SpecTelescope == InitTelescope /\ [][NextTelescope]_vars

SpecExec == InitExec /\ [][NextExec]_vars

SpecThreads == InitThreads /\ [][NextThreads]_vars

SpecChannel == InitChannel /\ [][NextChannel]_vars


(***************************************************************************)
(* The claims.                                                             *)
(***************************************************************************)

\* ---- C1 (SpecHook) ----
\* a patch of the script is active in the table
ScriptPatchActive ==
    \E i \in Slots, k \in 1 .. 3 :
        /\ patchram[i].active
        /\ patchram[i].address = HookSites[k]
        /\ patchram[i].value = Bl(HOOKS_LOCATION + 2 * (k - 1))

\* the script made a call of this kind with this result before its call i
CalledBefore(i, op, ok) ==
    \E j \in 1 .. i - 1 : hook.calls[j].op = op /\ hook.calls[j].ok = ok

\* C1 as claimed: no ROM patch is installed before the hook code is written
\* and confirmed readable back: every patchRom call of the script comes after
\* a writeMem that succeeded and after a read of the code that confirmed it.
C1_Original ==
    \A i \in 1 .. Len(hook.calls) :
        hook.calls[i].op = "patchRom" =>
            /\ CalledBefore(i, "writeMem", TRUE)
            /\ CalledBefore(i, "readMem", TRUE)

\* C1 as amended: every patchRom call of the script comes after a writeMem of
\* the hook code that returned success; when the write fails the script exits
\* and no patch is installed; while a patch of the script is active the hook
\* code is in memory at HOOKS_LOCATION.  The script reads nothing back.
C1_PatchOnlyAfterWrite ==
    /\ \A i \in 1 .. Len(hook.calls) :
          hook.calls[i].op = "patchRom" => CalledBefore(i, "writeMem", TRUE)
    /\ (\E j \in 1 .. Len(hook.calls) :
            hook.calls[j].op = "writeMem" /\ ~hook.calls[j].ok)
          => /\ hook.pc = "exited"
             /\ ~ScriptPatchActive
             /\ \A i \in 1 .. Len(hook.calls) : hook.calls[i].op # "patchRom"
    /\ ScriptPatchActive => MemHolds(mem, HOOKS_LOCATION, HookCode)

\* the write succeeded and the three patches of the script are installed
C1_Witness ==
    /\ hook.pc = "patch4"
    /\ ScriptPatchActive
    /\ Len(hook.calls) = 4

\* ---- C2 (SpecWrite) ----
\* the command of this step came to the section check with a range that no
\* RAM section contains
WriteOutsideRam(last) ==
    /\ last.checked
    /\ ~RangeInSomeSection(last.address, last.length, "RAM")

InRom(address) == RangeInSomeSection(address, 4, "ROM")

\* the step is an install that called into the patch table
InstallReached(last) == last.op = "install" /\ last.reached

\* C4: at most one slot is active per address, and an install at an address
\* that already has an active slot replaces the value of that slot and
\* changes nothing else in the table.
C4_OneSlotPerAddress ==
    /\ [](\A i, j \in Slots :
            (patchram[i].active /\ patchram[j].active
                /\ patchram[i].address = patchram[j].address) => i = j)
    /\ [][(InstallReached(patchLast')
              /\ ActiveSlotsAt(patchram, patchLast'.address) # {})
            => \E i \in ActiveSlotsAt(patchram, patchLast'.address) :
                  /\ patchLast'.index = i
                  /\ patchram' = [patchram EXCEPT ![i].value = patchLast'.value]]_vars

\* an install at an active address, given another slot than the one bound
C4_Witness ==
    /\ InstallReached(patchLast) /\ patchLast.result
    /\ patchLast.slot \in Slots
    /\ patchLast.slot # patchLast.index

\* what getState() lists for the address
ListedAt(table, address) == { e \in infoPatchram(table) : e.address = address }

C6_NoFreeSlot ==
    [][(/\ InstallReached(patchLast')
        /\ patchLast'.slot = None
        /\ FreeSlots(patchram) = {}
        /\ ActiveSlotsAt(patchram, patchLast'.address) = {})
          => /\ patchLast'.error = "NoFreeSlot"
             /\ ~patchLast'.result
             /\ patchram' = patchram]_vars

\* an install that failed on the full table
C6_Witness ==
    /\ InstallReached(patchLast)
    /\ patchLast.error = "NoFreeSlot"
    /\ FreeSlots(patchram) = {}

\* the active slots a remove matches: the given slot, or with no slot given
\* the slot bound to the given address
Matching(table, address, slot) ==
    IF slot # None
    THEN { i \in Slots : i = slot /\ table[i].active }
    ELSE { i \in Slots : table[i].active /\ table[i].address = address }

\* C7: remove frees the active slot that matches the given slot or address:
\* getState() no longer lists it, the other slots are unchanged and a later
\* install can take the slot; when no active slot matches, remove fails with
\* NotFound and the table is unchanged.
C7_Remove ==
    [][(patchLast'.op = "delete" /\ patchLast'.reached)
          => LET M == Matching(patchram, patchLast'.address, patchLast'.slot) IN
             IF M = {}
             THEN /\ patchLast'.error = "NotFound"
                  /\ ~patchLast'.result
                  /\ patchram' = patchram
             ELSE /\ patchLast'.result
                  /\ patchLast'.index \in M
                  /\ \A e \in infoPatchram(patchram') : e.index # patchLast'.index
                  /\ \A j \in Slots \ {patchLast'.index} : patchram'[j] = patchram[j]
                  /\ patchLast'.index \in FreeSlots(patchram')
                  /\ InstallSlot(patchram', patchram[patchLast'.index].address,
                                 patchLast'.index) = patchLast'.index]_vars

\* a remove by address that freed a slot and left another one active
C7_Witness ==
    /\ patchLast.op = "delete" /\ patchLast.reached /\ patchLast.result
    /\ patchLast.slot = None
    /\ ~patchram[patchLast.index].active
    /\ \E j \in Slots : patchram[j].active

C9_Original ==
    (patchLast.reached /\ patchLast.slot # None) => patchLast.slot \in Slots

\* C10: the value handed to the patch table has exactly 4 bytes: the first 4
\* bytes of longer data, shorter data followed by zero bytes, data of 4 bytes
\* as it is; a warning is raised in exactly the two adjusting cases.
C10_FourBytes ==
    InstallReached(patchLast) =>
        /\ Len(patchLast.value) = 4
        /\ \A i \in 1 .. 4 :
              patchLast.value[i] =
                  IF i <= Len(patchLast.data) THEN patchLast.data[i] ELSE 0
        /\ patchLast.warned =
              IF Len(patchLast.data) > 4 THEN {"truncate"}
              ELSE IF Len(patchLast.data) < 4 THEN {"pad"} ELSE {}
        /\ patchLast.result => patchram[patchLast.index].value = patchLast.value

\* data of more than 4 bytes was installed
C10_Witness ==
    /\ InstallReached(patchLast) /\ patchLast.result
    /\ Len(patchLast.data) > 4
    /\ "truncate" \in patchLast.warned

\* ---- C11 .. C18 (SpecMonitor) ----
\* the step just taken is this operation on the monitor of kind k
MonStep(last, op, k) == last.op = op /\ last.kind = k

\* the viewer process of the monitor is attached and has exited
ViewerGone(m) == m.wireshark_process # None /\ m.status # None

\* C11: a start on a monitor that is running fails with "already running" and
\* changes nothing: the monitor stays running, no viewer is launched, no
\* global header is written and no callback is registered.
C11_StartTwice ==
    [][\A k \in Kinds :
          (MonStep(monLast', "start", k) /\ monitor[k].running)
            => /\ monLast'.result = "False"
               /\ "already running" \in monLast'.logged
               /\ monitor' = monitor]_vars

\* a refused start on a monitor with its viewer and its callback
C11_Witness ==
    /\ monLast.op = "start"
    /\ "already running" \in monLast.logged
    /\ \E k \in Kinds :
          /\ monLast.kind = k
          /\ monitor[k].running /\ monitor[k].registered = 1
          /\ monitor[k].wireshark_process # None

\* C12: whenever a monitor is running and its viewer has exited, with any
\* exit status, the liveness check stops the monitor within one poll interval.
C12_Original ==
    [][\A k \in Kinds :
          (MonStep(monLast', "poll", k) /\ monitor[k].running /\ ViewerGone(monitor[k]))
            => ~monitor'[k].running]_vars

C14_Original ==
    monLast.op = "callback" =>
        /\ monLast.record.incl_len = monLast.record.payload_len
        /\ monLast.record.orig_len = monLast.record.payload_len

\* C14 as amended: the two length fields of the record header are equal and
\* give the length of the framed packet that follows the header: L + 4 in the
\* HCI callback and L + 26 in the LMP callback.
C14_FramedLength ==
    monLast.op = "callback" =>
        /\ monLast.record.incl_len = monLast.record.orig_len
        /\ monLast.record.incl_len =
              monLast.record.payload_len + (IF monLast.kind = "hci" THEN 4 ELSE 26)

\* a record of a payload that is not empty was written to the viewer
C14_Witness ==
    /\ monLast.op = "callback" /\ monLast.result = "written"
    /\ monLast.record.payload_len > 0
    /\ Len(monitor[monLast.kind].stdin) > 1

\* the link type of the capture stream of a kind
LinkTypeOf(k) == IF k = "hci" THEN 201 ELSE 1

C16_Stop ==
    [][\A k \in Kinds :
          MonStep(monLast', "stop", k)
            => /\ monitor'[k].wireshark_process = monitor[k].wireshark_process
               /\ monitor'[k].status = monitor[k].status
               /\ monitor'[k].stdin = monitor[k].stdin
               /\ monitor'[k].poll_timer = monitor[k].poll_timer
               /\ monitor'[k].timer_pending = monitor[k].timer_pending
               /\ IF monitor[k].running
                  THEN /\ monLast'.result = "True"
                       /\ ~monitor'[k].running
                       /\ monitor'[k].registered = 0
                  ELSE /\ monLast'.result = "False"
                       /\ "not running" \in monLast'.logged
                       /\ ~monitor'[k].running
                       /\ monitor'[k].registered = monitor[k].registered]_vars

\* a stop that left a running viewer attached
C16_Witness ==
    /\ monLast.op = "stop" /\ monLast.result = "True"
    /\ monitor[monLast.kind].wireshark_process # None
    /\ monitor[monLast.kind].status = None
    /\ monitor[monLast.kind].registered = 0

C18_OnePerKind ==
    /\ [](\A k \in Kinds : monitor[k].made <= 1 /\ (monitor[k].running => monitor[k].created))
    /\ [][\A k \in Kinds : monLast'.kind # k => monitor'[k] = monitor[k]]_vars
    /\ [][\A k \in Kinds :
            (MonStep(monLast', "status", k) /\ monitor[k].created)
              => /\ monitor'[k] = monitor[k]
                 /\ monLast'.result = (IF monitor[k].running THEN "True" ELSE "False")]_vars

\* a status request with the monitors of both kinds running
C18_Witness ==
    /\ monLast.op = "status" /\ monLast.result = "True"
    /\ \A k \in Kinds : monitor[k].running /\ monitor[k].made = 1

\* ---- C19 (SpecTransfer) ----
\* the range of the call lies inside one RAM section of the firmware map
InsideRam(address, length) ==
    \E i \in 1 .. Len(SECTIONS) :
        /\ SECTIONS[i].is_ram
        /\ SECTIONS[i].start_addr <= address
        /\ address + length <= SECTIONS[i].end_addr

InRange(index) == index \in 1 .. CONNECTION_ARRAY_SIZE

\* the remote address of the record of an index is zero in memory
SlotEmpty(index) == mem[ConnectionAddress(index) + 1] = 0

\* the elements of a sequence
Elems(seq) == { seq[k] : k \in 1 .. Len(seq) }

ScriptPatchInstalled(table, k) ==
    \E i \in Slots :
        /\ table[i].active
        /\ table[i].address = HookSites[k]
        /\ table[i].value = Bl(HOOKS_LOCATION + 2 * (k - 1))

\* the number of patchRom calls of the script that succeeded
PatchesDone ==
    Cardinality({ i \in 1 .. Len(hook.calls) :
                    hook.calls[i].op = "patchRom" /\ hook.calls[i].ok })

\* C22: a step of the script that fails is its last step: the script has
\* exited and no later patch is installed.  Nothing is rolled back: no step
\* changes or frees an active slot, no step after the write changes memory,
\* and when the script has ended the hook code that was written is in RAM
\* and exactly the patches installed before the failure are active.
C22_AbortNoRollback ==
    /\ [](\A i \in 1 .. Len(hook.calls) :
            ~hook.calls[i].ok => (i = Len(hook.calls) /\ hook.pc = "exited"))
    /\ [](\A k \in 1 .. 3 : ScriptPatchInstalled(patchram, k) <=> k <= PatchesDone)
    /\ [](PatchesDone > 0 => MemHolds(mem, HOOKS_LOCATION, HookCode))
    /\ [][/\ \A i \in Slots : patchram[i].active => patchram'[i] = patchram[i]
          /\ hook.pc \notin {"connect", "asm_hooks", "write"} => mem' = mem
          /\ hook.pc \in {"exited", "crashed"} => UNCHANGED vars]_vars

\* the second patch install failed: the code and the first patch stay
C22_Witness ==
    /\ hook.pc = "exited"
    /\ Len(hook.calls) = 3
    /\ hook.calls[3].op = "patchRom" /\ ~hook.calls[3].ok
    /\ ScriptPatchInstalled(patchram, 1)
    /\ MemHolds(mem, HOOKS_LOCATION, HookCode)

\* ---- C23 (SpecImage) ----
\* the indexes of the RAM sections of the map, and of those that are not
\* ROM, in order
RamSections ==
    SelectSeq([i \in 1 .. Len(SECTIONS) |-> i], LAMBDA i : SECTIONS[i].is_ram)

NotRomSections ==
    SelectSeq([i \in 1 .. Len(SECTIONS) |-> i], LAMBDA i : ~SECTIONS[i].is_rom)

\* the address lies in a RAM section, in a section that is not ROM, in ROM
AddrInRam(a) ==
    SectionOf(SECTIONS, a) # 0 /\ SECTIONS[SectionOf(SECTIONS, a)].is_ram

AddrInNotRom(a) ==
    SectionOf(SECTIONS, a) # 0 /\ ~SECTIONS[SectionOf(SECTIONS, a)].is_rom

AddrInRom(a) ==
    SectionOf(SECTIONS, a) # 0 /\ SECTIONS[SectionOf(SECTIONS, a)].is_rom

\* the step is a call of getMemoryImage
ImageCall == image'.op = "getMemoryImage"

\* every section is read only when no image is cached: a call that reads a
\* ROM section finds no image and no template
ReadsAllOnlyUncached ==
    (ImageCall /\ \E k \in 1 .. Len(image'.reads) : SECTIONS[image'.reads[k]].is_rom)
      => /\ ~image.cached /\ ~image.template
         /\ image'.reads = [i \in 1 .. Len(SECTIONS) |-> i]

\* a call without refresh on a cached image reads nothing and changes nothing
NoRefreshNoRead ==
    (ImageCall /\ image.cached /\ ~image'.refresh)
      => image'.reads = <<>> /\ image'.memory_image = image.memory_image

\* C23 as claimed: a refresh of a cached image reads the RAM sections only,
\* and leaves the length and every byte outside the RAM sections unchanged.
C23_Original ==
    [][/\ ReadsAllOnlyUncached
       /\ NoRefreshNoRead
       /\ (ImageCall /\ image.cached /\ image'.refresh)
            => /\ image'.reads = RamSections
               /\ Len(image'.memory_image) = Len(image.memory_image)
               /\ \A a \in 0 .. Len(image.memory_image) - 1 :
                     IF AddrInRam(a)
                     THEN image'.memory_image[a + 1] = mem[a]
                     ELSE image'.memory_image[a + 1] = image.memory_image[a + 1]]_vars

\* C23 as amended: a refresh of a cached image reads every section that is
\* not ROM (the RAM sections and the sections that are neither ROM nor RAM),
\* replaces exactly the bytes of these sections with the fresh content and
\* leaves the length and every other byte (the ROM content and the gaps)
\* unchanged; every section is read only when no image is cached and no
\* template exists; without refresh a cached image is returned without a read.
C23_RefreshNotRom ==
    [][/\ ReadsAllOnlyUncached
       /\ NoRefreshNoRead
       /\ (ImageCall /\ image.cached /\ image'.refresh)
            => /\ image'.reads = NotRomSections
               /\ Len(image'.memory_image) = Len(image.memory_image)
               /\ \A a \in 0 .. Len(image.memory_image) - 1 :
                     IF AddrInNotRom(a)
                     THEN image'.memory_image[a + 1] = mem[a]
                     ELSE image'.memory_image[a + 1] = image.memory_image[a + 1]]_vars

\* a refresh of a cached image took in a byte that had changed in RAM, with
\* the ROM content in the image
C23_Witness ==
    /\ image.op = "getMemoryImage" /\ image.refresh /\ image.was_cached
    /\ image.reads # <<>>
    /\ \E a \in 0 .. Len(image.memory_image) - 1 :
          AddrInRam(a) /\ image.memory_image[a + 1] = 2
    /\ \E a \in 0 .. Len(image.memory_image) - 1 :
          AddrInRom(a) /\ image.memory_image[a + 1] = 1

\* ---- C24 (SpecTelescope) ----
\* C24: for every memory content the telescope command ends, and for every
\* displayed word it reads at most 4 pointer targets; the chain shows the
\* word and then the value read at each target; every value that is followed
\* is not zero and its target range lies inside a section of the map; the
\* chain ends at a value that is zero, or at depth 0, or at a value whose
\* target range the section check refuses.
C24_BoundedChains ==
    \A index \in 1 .. Len(teleLast.chains) :
        LET c == teleLast.chains[index] IN
        /\ Len(c.reads) <= 4
        /\ Len(c.chain) = Len(c.reads) + 1
        /\ c.chain[1] = mem[teleLast.address + index - 1]
        /\ \A k \in 1 .. Len(c.reads) :
              /\ c.reads[k] = c.chain[k]
              /\ c.chain[k] # 0
              /\ RangeInSomeSection(c.reads[k], TargetLen, "")
              /\ c.chain[k + 1] = mem[c.reads[k]]
        /\ \/ c.chain[Len(c.chain)] = 0
           \/ Len(c.reads) = 4
           \/ ~isAddressInSections(c.chain[Len(c.chain)], TargetLen, "")

\* a word of a pointer cycle was followed four times, and another chain
\* ended at a target outside the sections
C24_Witness ==
    /\ teleLast.op = "telescope" /\ teleLast.result = "True"
    /\ \E index \in 1 .. Len(teleLast.chains) :
          LET c == teleLast.chains[index] IN
          /\ Len(c.reads) = 4
          /\ c.chain[5] # 0
          /\ c.chain[5] = c.chain[3] /\ c.chain[1] # c.chain[2]
    /\ \E index \in 1 .. Len(teleLast.chains) :
          LET c == teleLast.chains[index] IN
          /\ c.chain[Len(c.chain)] # 0
          /\ Len(c.reads) < 4

\* ---- C27 (SpecExec) ----
\* C27: every launchRam of an exec command comes right after a writeMem of
\* the assembled code to the same address that succeeded in that command,
\* with the code in memory at the address; an assembler failure, empty code
\* or a dry run makes no call and leaves memory as it is; a failed write is
\* the last call of the command.
C27_LaunchAfterWrite ==
    /\ [](\A i \in 1 .. Len(execLast.calls) :
            /\ execLast.calls[i].op = "launchRam"
                 => /\ i = 2
                    /\ execLast.calls[1].op = "writeMem" /\ execLast.calls[1].ok
                    /\ execLast.calls[1].address = execLast.calls[i].address
                    /\ execLast.calls[i].address = execLast.address
                    /\ MemHolds(mem, execLast.address, execLast.data)
            /\ ~execLast.calls[i].ok /\ execLast.calls[i].op = "writeMem"
                 => i = Len(execLast.calls))
    /\ [](execLast.stage \in {"noargs", "asm failed", "no code", "dry", "not in RAM"}
            => execLast.calls = <<>>)
    /\ [][execLast'.stage \in {"noargs", "asm failed", "no code", "dry", "not in RAM"}
            => mem' = mem]_vars

\* a command wrote code of two chunks and launched it
C27_Witness ==
    /\ execLast.stage = "launched"
    /\ Len(execLast.calls) = 2
    /\ Len(execLast.data) > WriteChunkSize
    /\ execLast.data[1] # 0

\* ---- C25 (SpecMonitor) ----
\* C25: a monitor that is running with a viewer process attached has a
\* liveness timer waiting.
C25_Original ==
    \A k \in Kinds :
        (monitor[k].running /\ monitor[k].wireshark_process # None)
          => monitor[k].timer_pending

\* ---- C26 (SpecThreads) ----
\* C26: while the callback is registered or running, and while the monitor is
\* marked running outside of start, the viewer process reference is set.
C26_Original ==
    /\ threads.registered => threads.wireshark_process # None
    /\ threads.pc["cb"] \in {"cb_write", "cb_flush"} => threads.wireshark_process # None
    /\ (threads.running /\ threads.pc["cli"] # "start_spawn")
          => threads.wireshark_process # None

\* ---- C21 (SpecChannel) ----
\* C21: at most one request is in flight, a caller is blocked in send only
\* behind a request in flight, every response went to the caller whose
\* request it answers, and the capture callback never blocks while a request
\* is in flight.
InFlight == {c \in Callers : channel.work[c] = "in flight"}

C21_Original ==
    /\ Cardinality(InFlight) <= 1
    /\ InFlight = IF channel.outstanding = None THEN {} ELSE {channel.outstanding}
    /\ \A c \in Callers : channel.work[c] = "blocked" <=> c \in channel.waiting
    /\ channel.waiting # {} => channel.outstanding # None
    /\ \A c \in Callers : channel.response[c] = "response" => channel.answered[c] = c
    /\ channel.outstanding # None => channel.cb # "blocked"

\* ---- C3 (SpecSections) ----
\* C3: for every address, length and kind, over every non-overlapping
\* firmware map, isAddressInSections returns true if and only if some section
\* matching the kind fully contains the range [address, address+length).
C3_Original ==
    secOut # NoValue =>
        ((secOut = "True")
            <=> RangeInSomeSection(secIn.address, secIn.length, secIn.sectiontype))

=============================================================================
